---- MODULE Spec2Model ----
(***************************************************************************)
(* Model of ironcore-dev/controller-utils:                                 *)
(*   - conditionutils: Accessor.Update / Accessor.UpdateSlice with the     *)
(*     UpdateTimestamps transition bookkeeping,                            *)
(*   - memorystore: the in-memory Store (a map from ObjectRef to object    *)
(*     pointer) and its client verbs,                                      *)
(*   - cmdutils/switches: the Switches flag value,                         *)
(*   - clientutils: SharedFieldIndexer and the helpers over a              *)
(*     client.Client.                                                      *)
(***************************************************************************)
EXTENDS Integers, Sequences, FiniteSets, TLC

VARIABLES
    acc,        \* conditionutils.Accessor: disableTimestampUpdates, transition
    elemType,   \* the Go struct type of the conditions handled
    clock,      \* what acc.clock.Now() returns
    cond,       \* the condition behind condPtr of Accessor.Update
    conds,      \* the slice behind condSlicePtr of Accessor.UpdateSlice
    condCalls,  \* number of UpdateSlice calls made so far
    condLast,   \* the last conditionutils call: arguments and returned error
    heap,       \* the client.Object values behind the caller's pointers
    entries,    \* Store.entries: ObjectRef -> pointer
    mutations,  \* number of writes the caller made through its own pointers
    storeLast,  \* the last Store call: verb, returned error, objects read
    defaults,   \* Switches.defaults: name -> enabled
    settings,   \* Switches.settings: name -> enabled
    switchLast, \* the last Switches call: its error, and its spec or the
                \* position of the unknown item
    registry,   \* SharedFieldIndexer: (flavour, GVK, field) -> *mapEntry
    succeeded,  \* per registration, the underlying indexer's successful calls
    indexLast,  \* the last SharedFieldIndexer call, its error, and whether
                \* it invoked the underlying client.FieldIndexer
    finalizers, \* the finalizers of the object handed to the finalizer helpers
    clientLast  \* the last clientutils helper call: its arguments, the calls
                \* it made on the client.Client and what it returned

condVars == <<acc, elemType, clock, cond, conds, condCalls, condLast>>
storeVars == <<heap, entries, mutations, storeLast>>
switchVars == <<defaults, settings, switchLast>>
indexerVars == <<registry, succeeded, indexLast>>
clientVars == <<finalizers, clientLast>>
vars == <<acc, elemType, clock, cond, conds, condCalls, condLast,
          heap, entries, mutations, storeLast,
          defaults, settings, switchLast,
          registry, succeeded, indexLast,
          finalizers, clientLast>>

\* What the calls of one package leave alone: the state of the others.
outsideCond == <<storeVars, switchVars, indexerVars, clientVars>>
outsideStore == <<condVars, switchVars, indexerVars, clientVars>>
outsideSwitches == <<condVars, storeVars, indexerVars, clientVars>>
outsideIndexer == <<condVars, storeVars, switchVars, clientVars>>
outsideClient == <<condVars, storeVars, switchVars, indexerVars>>

----------------------------------------------------------------------------
(* Bounds *)

\* The fake clock is stepped at most up to this time.
MaxClock == 2
\* Most direct setter calls (SetType, SetStatus, ...) made on one condition.
MaxSetterCalls == 2

\* Longest list of UpdateOptions passed to one Accessor.Update call.
MaxOpts == 2
\* Number of Accessor calls made on the slice in one behaviour.
MaxCalls == 3
\* Number of writes the caller makes to objects it has handed to the Store.
MaxMutations == 1
\* Longest spec string passed to Switches.Set, in characters.
MaxSpecLen == 4
\* The underlying field indexer's successful calls for one registration are
\* counted up to this number.
MaxSucceeded == 2

----------------------------------------------------------------------------
(* conditionutils: condition records *)

\* metav1.Time{} : the zero time, never returned by the clock.
ZeroTime == 0

TypeField == "Type"
StatusField == "Status"
LastUpdateTimeField == "LastUpdateTime"
LastTransitionTimeField == "LastTransitionTime"
ReasonField == "Reason"
MessageField == "Message"
ObservedGenerationField == "ObservedGeneration"

\* The two condition struct types of the Kubernetes API the package is used
\* with: appsv1.DeploymentCondition has no ObservedGeneration,
\* metav1.Condition has no LastUpdateTime.
ElemTypes == {"DeploymentCondition", "Condition"}

\* reflect.Value.FieldByName(name) != reflect.Value{}
valueHasField(t, name) ==
    CASE name = ObservedGenerationField -> t = "Condition"
      [] name = LastUpdateTimeField -> t = "DeploymentCondition"
      [] OTHER -> TRUE

\* reflect.New(elemType).Elem(): every field holds its zero value.  A field
\* the struct type does not have is kept at its zero value and never written.
ZeroCond ==
    [Type |-> "", Status |-> "", Reason |-> "", Message |-> "",
     LastUpdateTime |-> ZeroTime, LastTransitionTime |-> ZeroTime,
     ObservedGeneration |-> 0]

Ok(c) == [cond |-> c, err |-> "nil"]
Fail(c, e) == [cond |-> c, err |-> e]

\* setFieldConverted: error if the struct has no such field, else assign.
setFieldConverted(t, c, name, newValue) ==
    IF ~valueHasField(t, name)
    THEN Fail(c, "NoField")
    ELSE Ok([c EXCEPT ![name] = newValue])

SetType(t, c, typ) == setFieldConverted(t, c, TypeField, typ)
SetStatus(t, c, status) == setFieldConverted(t, c, StatusField, status)
SetReason(t, c, reason) == setFieldConverted(t, c, ReasonField, reason)
SetMessage(t, c, message) == setFieldConverted(t, c, MessageField, message)
SetObservedGeneration(t, c, gen) ==
    setFieldConverted(t, c, ObservedGenerationField, gen)

\* SetLastUpdateTime, SetLastTransitionTime: error if the field is missing.
SetLastUpdateTime(t, c, time) ==
    setFieldConverted(t, c, LastUpdateTimeField, time)
SetLastTransitionTime(t, c, time) ==
    setFieldConverted(t, c, LastTransitionTimeField, time)

\* SetLastUpdateTimeIfExists: nothing happens if the field does not exist.
SetLastUpdateTimeIfExists(t, c, time) ==
    IF ~valueHasField(t, LastUpdateTimeField)
    THEN Ok(c)
    ELSE setFieldConverted(t, c, LastUpdateTimeField, time)

\* SetLastTransitionTimeIfExists: nothing happens if the field does not exist.
SetLastTransitionTimeIfExists(t, c, time) ==
    IF ~valueHasField(t, LastTransitionTimeField)
    THEN Ok(c)
    ELSE setFieldConverted(t, c, LastTransitionTimeField, time)

\* A direct call of one of the Accessor's setters on a condition.
Setter(t, c, call) ==
    CASE call.setter = "SetType" -> SetType(t, c, call.arg)
      [] call.setter = "SetStatus" -> SetStatus(t, c, call.arg)
      [] call.setter = "SetReason" -> SetReason(t, c, call.arg)
      [] call.setter = "SetMessage" -> SetMessage(t, c, call.arg)
      [] call.setter = "SetObservedGeneration" ->
            SetObservedGeneration(t, c, call.arg)
      [] call.setter = "SetLastUpdateTime" ->
            SetLastUpdateTime(t, c, call.arg)
      [] call.setter = "SetLastUpdateTimeIfExists" ->
            SetLastUpdateTimeIfExists(t, c, call.arg)
      [] call.setter = "SetLastTransitionTime" ->
            SetLastTransitionTime(t, c, call.arg)
      [] OTHER -> SetLastTransitionTimeIfExists(t, c, call.arg)

----------------------------------------------------------------------------
(* conditionutils: update options *)

UpdateStatus(s) == [field |-> StatusField, value |-> s]
UpdateReason(r) == [field |-> ReasonField, value |-> r]
UpdateMessage(m) == [field |-> MessageField, value |-> m]
UpdateObservedGeneration(g) == [field |-> ObservedGenerationField, value |-> g]

\* UpdateStatus/UpdateReason/UpdateMessage/UpdateObservedGeneration.ApplyUpdate
ApplyUpdate(t, c, opt) ==
    CASE opt.field = StatusField -> SetStatus(t, c, opt.value)
      [] opt.field = ReasonField -> SetReason(t, c, opt.value)
      [] opt.field = MessageField -> SetMessage(t, c, opt.value)
      [] OTHER -> SetObservedGeneration(t, c, opt.value)

\* for _, update := range updates { if err := update.ApplyUpdate(..) ... }
\* The updates are applied through the pointer, so what was applied before a
\* failing update stays applied.
RECURSIVE applyUpdates(_, _, _)
applyUpdates(t, c, opts) ==
    IF opts = <<>>
    THEN Ok(c)
    ELSE LET r == ApplyUpdate(t, c, Head(opts))
         IN  IF r.err # "nil" THEN r ELSE applyUpdates(t, r.cond, Tail(opts))

----------------------------------------------------------------------------
(* conditionutils: transition checkpoint *)

FieldsTransition(s, r, m) ==
    [IncludeStatus |-> s, IncludeReason |-> r, IncludeMessage |-> m]

\* alias.go: DefaultTransition = &FieldsTransition{IncludeStatus: true}
\* A default Transition that also checkpoints the reason.
DefaultTransitionWithReason == FieldsTransition(TRUE, TRUE, FALSE)

DefaultTransition == FieldsTransition(TRUE, FALSE, FALSE)

\* FieldsTransition.computeValues: fields not included stay "".
computeValues(f, c) ==
    [Status |-> IF f.IncludeStatus THEN c.Status ELSE "",
     Reason |-> IF f.IncludeReason THEN c.Reason ELSE "",
     Message |-> IF f.IncludeMessage THEN c.Message ELSE ""]

\* FieldsTransition.Checkpoint
Checkpoint(f, c) == [transition |-> f, values |-> computeValues(f, c)]

\* A checkpoint that reports a transition on every update.
TransitionedAlways(cp, c) == TRUE

\* fieldsTransitionCheckpoint.Transitioned
Transitioned(cp, c) ==
    LET newValues == computeValues(cp.transition, c)
    IN  \/ newValues.Status # cp.values.Status
        \/ newValues.Reason # cp.values.Reason
        \/ newValues.Message # cp.values.Message

\* UpdateTimestamps.ApplyUpdate
UpdateTimestampsApplyUpdate(t, transition, now, c, updates) ==
    LET checkpoint == Checkpoint(transition, c)
        r == applyUpdates(t, c, updates)
    IN  IF r.err # "nil"
        THEN r
        ELSE LET r2 == IF Transitioned(checkpoint, r.cond)
                       THEN SetLastTransitionTimeIfExists(t, r.cond, now)
                       ELSE Ok(r.cond)
             IN  IF r2.err # "nil"
                 THEN r2
                 ELSE SetLastUpdateTimeIfExists(t, r2.cond, now)

\* Accessor.Update
Update(a, t, now, c, opts) ==
    IF ~a.disableTimestampUpdates
    THEN UpdateTimestampsApplyUpdate(t, a.transition, now, c, opts)
    ELSE applyUpdates(t, c, opts)

----------------------------------------------------------------------------
(* conditionutils: condition slices *)

\* A scan that reports "not found" whatever the slice holds.
findTypeIndexNever(condSlice, typ) == -1

\* A scan that returns the last match instead of the first.
findTypeIndexLast(condSlice, typ) ==
    LET hits == {i \in 1..Len(condSlice) : condSlice[i].Type = typ}
    IN  IF hits = {} THEN -1
        ELSE (CHOOSE i \in hits : \A j \in hits : j <= i) - 1

\* Accessor.findTypeIndex: linear scan, first match, Go index (from 0), -1 if
\* there is none.
RECURSIVE findTypeIndexFrom(_, _, _)
findTypeIndexFrom(condSlice, typ, i) ==
    IF i >= Len(condSlice)
    THEN -1
    ELSE IF condSlice[i + 1].Type = typ
         THEN i
         ELSE findTypeIndexFrom(condSlice, typ, i + 1)

findTypeIndex(condSlice, typ) == findTypeIndexFrom(condSlice, typ, 0)

\* A new condition whose initial transition time is left unset.
newConditionNoTime(t, now, typ) == SetType(t, ZeroCond, typ)

\* The part of Accessor.UpdateSlice that prepares a new condition:
\* reflect.New(elemType), SetType, SetLastTransitionTimeIfExists(now).
newCondition(t, now, typ) ==
    LET r == SetType(t, ZeroCond, typ)
    IN  IF r.err # "nil"
        THEN r
        ELSE SetLastTransitionTimeIfExists(t, r.cond, now)

\* Accessor.UpdateSlice: the slice after the call and the returned error.
\* The clock is read once for a condition that exists (now, inside Update);
\* for a new condition it is read for the initial transition time (now) and
\* again inside Update (later).
UpdateSlice(a, t, now, later, condSlice, typ, opts) ==
    LET idx == findTypeIndex(condSlice, typ)
    IN  IF idx # -1
        THEN \* v = sliceV.Index(idx).Addr(): updated in place, also on error
             LET r == Update(a, t, now, condSlice[idx + 1], opts)
             IN  [slice |-> [condSlice EXCEPT ![idx + 1] = r.cond],
                  err |-> r.err]
        ELSE LET n == newCondition(t, now, typ)
             IN  IF n.err # "nil"
                 THEN [slice |-> condSlice, err |-> n.err]
                 ELSE LET r == Update(a, t, later, n.cond, opts)
                      IN  IF r.err # "nil"
                          THEN [slice |-> condSlice, err |-> r.err]
                          ELSE [slice |-> Append(condSlice, r.cond),
                                err |-> "nil"]

----------------------------------------------------------------------------
(* memorystore: objects, keys and options *)

\* The objects the caller holds pointers to, as in the package's test suite:
\* three ConfigMaps and a Pod (cm3 has the key of cm1 and other labels), and
\* an object of a type the scheme does not know.
Pointers == {"cm1", "cm2", "cm3", "pod", "unregistered"}

\* Whether apiutil.GVKForObject(obj, scheme) finds the object's type.
Registered(p) == p # "unregistered"

\* apiutil.GVKForObject(obj, scheme).GroupKind(): decided by the Go type.
GroupKindOf(p) ==
    IF p = "pod" THEN [Group |-> "", Kind |-> "Pod"]
    ELSE [Group |-> "", Kind |-> "ConfigMap"]

GroupKinds == {GroupKindOf(p) : p \in {q \in Pointers : Registered(q)}}

Namespaces == {"ns", "other"}
Names == {"a", "b"}
FooBar == {<<"foo", "bar">>}
LabelSets == {{}, FooBar}

Object(namespace, name, labels) ==
    [Namespace |-> namespace, Name |-> name, Labels |-> labels]

InitHeap ==
    [p \in Pointers |->
        CASE p = "cm1" -> Object("ns", "a", FooBar)
          [] p = "cm2" -> Object("other", "b", {})
          [] p = "cm3" -> Object("ns", "a", {})
          [] OTHER -> Object("ns", "a", {})]

\* client.ObjectKeyFromObject
ObjectKeyFromObject(obj) == [Namespace |-> obj.Namespace, Name |-> obj.Name]

ObjectKeys == {[Namespace |-> ns, Name |-> n] : ns \in Namespaces, n \in Names}

\* clientutils.ObjectRefFromObject: the kind of the pointer's type and the
\* key of the object as it is now.
ObjectRefFromObject(h, p) ==
    [GroupKind |-> GroupKindOf(p), Key |-> ObjectKeyFromObject(h[p])]

\* make(map[clientutils.ObjectRef]client.Object)
EmptyEntries == [k \in {} |-> "cm1"]

\* s.entries[key] = obj
Put(e, key, p) ==
    [k \in DOMAIN e \cup {key} |-> IF k = key THEN p ELSE e[k]]

\* delete(s.entries, key)
Remove(e, keys) == [k \in DOMAIN e \ keys |-> e[k]]

\* The fields of client.CreateOptions, GetOptions, ListOptions, DeleteOptions
\* and UpdateOptions that a call can set, other than the list filters.
CreateOptionFields == {"DryRun", "FieldManager", "Raw"}
GetOptionFields == {"Raw"}
ListOptionFields == {"Raw", "Continue", "Limit", "FieldSelector"}
DeleteOptionFields ==
    {"DryRun", "GracePeriodSeconds", "Preconditions", "PropagationPolicy",
     "Raw"}
UpdateOptionFields == {"DryRun", "FieldManager", "Raw"}

\* Options after ApplyOptions: the set fields, and the list filters.
\* Namespace is "" when not given; LabelSelector is {} when nil and {labels}
\* for the selector client.MatchingLabels(labels) builds.
Options(set, namespace, selector) ==
    [set |-> set, Namespace |-> namespace, LabelSelector |-> selector]

NoOptions == Options({}, "", {})

\* At most one option per call, as in the package's tests.
OptionsOf(fields) == {NoOptions} \cup {Options({f}, "", {}) : f \in fields}

ListFilters ==
    {NoOptions, Options({}, "ns", {}), Options({}, "", {FooBar}),
     Options({}, "other", {FooBar})}

validateClientCreateOptions(o) ==
    IF "Raw" \in o.set THEN "raw is not supported"
    ELSE IF "DryRun" \in o.set THEN "dry run is not supported"
    ELSE "nil"

validateClientGetOptions(o) ==
    IF "Raw" \in o.set THEN "raw is not supported" ELSE "nil"

validateClientListOptions(o) ==
    IF "Raw" \in o.set THEN "raw is not supported"
    ELSE IF "Continue" \in o.set THEN "continue is not supported"
    ELSE IF "Limit" \in o.set THEN "limit is not supported"
    ELSE IF "FieldSelector" \in o.set THEN "field selector is not supported"
    ELSE "nil"

validateClientDeleteOptions(o) ==
    IF "DryRun" \in o.set THEN "dry run is not supported"
    ELSE IF "GracePeriodSeconds" \in o.set
    THEN "grace period seconds is not supported"
    ELSE IF "Preconditions" \in o.set THEN "preconditions is not supported"
    ELSE IF "PropagationPolicy" \in o.set
    THEN "propagation policy is not supported"
    ELSE "nil"

\* A validation of DeleteAllOfOptions that looks at the list options alone.
validateClientDeleteAllOfOptionsListOnly(o) ==
    validateClientListOptions(o.ListOptions)

\* o is a DeleteAllOfOptions: [ListOptions, DeleteOptions]
validateClientDeleteAllOfOptions(o) ==
    IF validateClientListOptions(o.ListOptions) # "nil"
    THEN validateClientListOptions(o.ListOptions)
    ELSE validateClientDeleteOptions(o.DeleteOptions)

validateClientUpdateOptions(o) ==
    IF "DryRun" \in o.set THEN "dry run is not supported"
    ELSE IF "Raw" \in o.set THEN "raw is not supported"
    ELSE IF "FieldManager" \in o.set THEN "field manager is not supported"
    ELSE "nil"

\* A match on the label selector alone.
objectMatchesLabelsOnly(obj, o) ==
    o.LabelSelector = {}
    \/ \A labels \in o.LabelSelector : labels \subseteq obj.Labels

\* labels.Selector.Matches for a selector built from MatchingLabels
objectMatchesClientListOptions(obj, o) ==
    IF o.Namespace # "" /\ o.Namespace # obj.Namespace
    THEN FALSE
    ELSE IF o.LabelSelector # {}
            /\ ~(\A labels \in o.LabelSelector : labels \subseteq obj.Labels)
    THEN FALSE
    ELSE TRUE

----------------------------------------------------------------------------
(* memorystore: the verbs, as functions of the store and the heap *)

\* Each verb yields the entries after the call, the error, and for Get and
\* List what was read.
Result(e, err) == [entries |-> e, err |-> err]

\* A Create that stores the object whether or not its key is present.
CreateOverwrite(e, h, p, o) ==
    IF validateClientCreateOptions(o) # "nil"
    THEN Result(e, validateClientCreateOptions(o))
    ELSE IF ~Registered(p)
    THEN Result(e, "no kind is registered")
    ELSE Result(Put(e, ObjectRefFromObject(h, p), p), "nil")

\* Store.Create
Create(e, h, p, o) ==
    IF validateClientCreateOptions(o) # "nil"
    THEN Result(e, validateClientCreateOptions(o))
    ELSE IF ~Registered(p)
    THEN Result(e, "no kind is registered")
    ELSE LET key == ObjectRefFromObject(h, p)
         IN  IF key \in DOMAIN e
             THEN Result(e, "AlreadyExists")
             ELSE Result(Put(e, key, p), "nil")

\* Store.Get: the object found is converted (copied) into obj.
Get(e, h, gk, objectKey, o) ==
    IF validateClientGetOptions(o) # "nil"
    THEN [err |-> validateClientGetOptions(o), found |-> FALSE]
    ELSE LET key == [GroupKind |-> gk, Key |-> objectKey]
         IN  IF key \notin DOMAIN e
             THEN [err |-> "NotFound", found |-> FALSE]
             ELSE [err |-> "nil", found |-> TRUE, obj |-> h[e[key]]]

\* The entries a List or DeleteAllOf of kind gk with options o selects.
Matching(e, h, gk, o) ==
    {k \in DOMAIN e :
        k.GroupKind = gk /\ objectMatchesClientListOptions(h[e[k]], o)}

\* Store.List
List(e, h, gk, o) ==
    IF validateClientListOptions(o) # "nil"
    THEN [err |-> validateClientListOptions(o), refs |-> {}]
    ELSE [err |-> "nil", refs |-> Matching(e, h, gk, o)]

\* A Delete that drops every entry of the object's kind.
DeleteWholeKind(e, h, p, o) ==
    IF validateClientDeleteOptions(o) # "nil"
    THEN Result(e, validateClientDeleteOptions(o))
    ELSE IF ~Registered(p)
    THEN Result(e, "no kind is registered")
    ELSE LET key == ObjectRefFromObject(h, p)
         IN  IF key \notin DOMAIN e
             THEN Result(e, "NotFound")
             ELSE Result(Remove(e, {k \in DOMAIN e :
                                       k.GroupKind = key.GroupKind}), "nil")

\* Store.Delete
Delete(e, h, p, o) ==
    IF validateClientDeleteOptions(o) # "nil"
    THEN Result(e, validateClientDeleteOptions(o))
    ELSE IF ~Registered(p)
    THEN Result(e, "no kind is registered")
    ELSE LET key == ObjectRefFromObject(h, p)
         IN  IF key \notin DOMAIN e
             THEN Result(e, "NotFound")
             ELSE Result(Remove(e, {key}), "nil")

\* A DeleteAllOf that removes every entry of the kind.
DeleteAllOfKind(e, h, gk, o) ==
    IF validateClientDeleteAllOfOptions(o) # "nil"
    THEN Result(e, validateClientDeleteAllOfOptions(o))
    ELSE Result(Remove(e, {k \in DOMAIN e : k.GroupKind = gk}), "nil")

\* Store.DeleteAllOf
DeleteAllOf(e, h, gk, o) ==
    IF validateClientDeleteAllOfOptions(o) # "nil"
    THEN Result(e, validateClientDeleteAllOfOptions(o))
    ELSE Result(Remove(e, Matching(e, h, gk, o.ListOptions)), "nil")

\* An Update that stores the object also when its key is missing.
StoreUpdateUpsert(e, h, p, o) ==
    IF validateClientUpdateOptions(o) # "nil"
    THEN Result(e, validateClientUpdateOptions(o))
    ELSE IF ~Registered(p)
    THEN Result(e, "no kind is registered")
    ELSE Result(Put(e, ObjectRefFromObject(h, p), p), "nil")

\* An Update that keeps what is stored for a present key.
StoreUpdateKeep(e, h, p, o) ==
    IF validateClientUpdateOptions(o) # "nil"
    THEN Result(e, validateClientUpdateOptions(o))
    ELSE IF ~Registered(p)
    THEN Result(e, "no kind is registered")
    ELSE IF ObjectRefFromObject(h, p) \notin DOMAIN e
    THEN Result(e, "NotFound")
    ELSE Result(e, "nil")

\* Store.Update
StoreUpdate(e, h, p, o) ==
    IF validateClientUpdateOptions(o) # "nil"
    THEN Result(e, validateClientUpdateOptions(o))
    ELSE IF ~Registered(p)
    THEN Result(e, "no kind is registered")
    ELSE LET key == ObjectRefFromObject(h, p)
         IN  IF key \notin DOMAIN e
             THEN Result(e, "NotFound")
             ELSE Result(Put(e, key, p), "nil")

\* Store.Patch
Patch == "patch is not supported"

----------------------------------------------------------------------------
(* switches: strings, parsing and the Switches value *)

\* A Go string is a sequence of one-character strings; a name or a token is
\* such a string.  All = "*", disablePrefix = "-".
All == <<"*">>
disablePrefix == "-"
Comma == ","

\* The byte of a character, which sort.Strings compares.
Code(ch) ==
    CASE ch = "*" -> 42
      [] ch = "," -> 44
      [] ch = "-" -> 45
      [] ch = "a" -> 97
      [] ch = "b" -> 98
      [] ch = "c" -> 99

\* x < y for Go strings
RECURSIVE Less(_, _)
Less(x, y) ==
    IF x = <<>> THEN y # <<>>
    ELSE IF y = <<>> THEN FALSE
    ELSE IF x[1] = y[1] THEN Less(Tail(x), Tail(y))
    ELSE Code(x[1]) < Code(y[1])

\* sort.Strings of the strings of a set
RECURSIVE sortStrings(_)
sortStrings(strs) ==
    IF strs = {} THEN <<>>
    ELSE LET m == CHOOSE x \in strs : \A y \in strs \ {x} : Less(x, y)
         IN  <<m>> \o sortStrings(strs \ {m})

\* strings.HasPrefix(v, disablePrefix), strings.TrimPrefix(v, disablePrefix)
HasPrefix(v) == Len(v) >= 1 /\ v[1] = disablePrefix
TrimPrefix(v) == IF HasPrefix(v) THEN Tail(v) ELSE v

\* csv.NewReader(strings.NewReader(val)).Read() for a non-empty val without
\* quotes and line breaks: the fields between the commas.
RECURSIVE csvFields(_, _)
csvFields(str, field) ==
    IF str = <<>> THEN <<field>>
    ELSE IF Head(str) = Comma
    THEN <<field>> \o csvFields(Tail(str), <<>>)
    ELSE csvFields(Tail(str), Append(field, Head(str)))

csvRead(val) == csvFields(val, <<>>)

\* make(map[string]bool), m[k] = v, and m[k] of a map that may lack k
EmptyMap == [k \in {} |-> TRUE]
MapSet(m, k, v) == [x \in DOMAIN m \cup {k} |-> IF x = k THEN v ELSE m[x]]
MapGet(m, k) == k \in DOMAIN m /\ m[k]

\* The second loop of prepareSettings: every token but "*" sets its name.
RECURSIVE applyTokens(_, _)
applyTokens(res, tokens) ==
    IF tokens = <<>> THEN res
    ELSE LET v == Head(tokens)
         IN  IF v = All
             THEN applyTokens(res, Tail(tokens))
             ELSE applyTokens(MapSet(res, TrimPrefix(v), ~HasPrefix(v)),
                              Tail(tokens))

\* A prepareSettings that starts from the defaults whatever the tokens are.
prepareSettingsFromDefaults(d, tokens) ==
    IF Len(tokens) = 1 /\ tokens[1] = <<>>
    THEN EmptyMap
    ELSE applyTokens(d, tokens)

\* A prepareSettings that never starts from the defaults.
prepareSettingsFromNothing(d, tokens) ==
    IF Len(tokens) = 1 /\ tokens[1] = <<>>
    THEN EmptyMap
    ELSE applyTokens(EmptyMap, tokens)

\* Switches.prepareSettings with s.defaults = d
prepareSettings(d, tokens) ==
    IF Len(tokens) = 1 /\ tokens[1] = <<>>
    THEN EmptyMap
    ELSE LET base == IF \E i \in 1..Len(tokens) : tokens[i] = All
                     THEN d
                     ELSE EmptyMap
         IN  applyTokens(base, tokens)

\* Make(args...): the defaults are prepared against empty defaults, the
\* settings start empty.
Make(args) ==
    [defaults |-> prepareSettings(EmptyMap, args), settings |-> EmptyMap]

\* The loop of Switches.String over the sorted names.
RECURSIVE stringItems(_, _, _)
stringItems(st, vals, res) ==
    IF vals = <<>> THEN res
    ELSE LET v == Head(vals)
             sep == IF res # <<>> THEN <<Comma>> ELSE <<>>
             item == IF MapGet(st, v) THEN v ELSE <<disablePrefix>> \o v
         IN  stringItems(st, Tail(vals), res \o sep \o item)

\* Switches.String
String(d, st) == stringItems(st, sortStrings(DOMAIN d), <<>>)

\* The tokens of val that name an item the defaults do not hold.
unknownItems(d, tokens) ==
    {i \in 1..Len(tokens) :
        TrimPrefix(tokens[i]) # All /\ TrimPrefix(tokens[i]) \notin DOMAIN d}

\* Switches.Set: the settings after the call and the returned error.
Set(d, st, val) ==
    IF val # <<>>
    THEN LET tokens == csvRead(val)
         IN  IF unknownItems(d, tokens) # {}
             THEN [settings |-> st, err |-> "unknown item"]
             ELSE [settings |-> prepareSettings(d, tokens), err |-> "nil"]
    ELSE [settings |-> prepareSettings(d, << <<>> >>), err |-> "nil"]

\* Switches.Values
Values(d, st) == [k \in DOMAIN d |-> MapGet(st, k)]

\* Switches.All: the names of the defaults
AllNames(d) == DOMAIN d

\* Switches.Active: the names the settings hold as enabled
Active(st) == {k \in DOMAIN st : st[k]}

\* Switches.Enabled
Enabled(st, name) == MapGet(st, name)

\* The record of a Set call: the returned error, the spec when the call
\* succeeded, and the position of the first unknown item when it failed.
SwitchCalled(op, d, val, err) ==
    [op |-> op, err |-> err,
     val |-> IF err = "nil" THEN val ELSE <<>>,
     unknown |-> IF err = "nil" THEN 0
                 ELSE CHOOSE i \in unknownItems(d, csvRead(val)) :
                         \A j \in unknownItems(d, csvRead(val)) : i <= j]

NoSwitchCall == [op |-> "none", err |-> "nil", val |-> <<>>, unknown |-> 0]

\* No Switches in use.
SwitchesIdle ==
    /\ defaults = EmptyMap
    /\ settings = EmptyMap
    /\ switchLast = NoSwitchCall

----------------------------------------------------------------------------
(* clientutils: SharedFieldIndexer *)

\* The objects passed to Register and IndexField: a typed Pod, an
\* unstructured Pod, a PartialObjectMetadata of a Pod, and an object of a
\* type the scheme does not know.
IndexObjects == {"Pod", "UnstructuredPod", "PartialObjectMetadataPod", "Unknown"}
IndexFields == {".spec", ".status"}
ExtractFuncs == {"f", "g"}

\* sharedFieldIndexerMap.mapFor: the GVK of the object (an error if the
\* scheme does not know its type), and the map of the object's flavour:
\* unstructured, metadata, or structured for every other type.
mapFor(obj) ==
    LET gvk == IF obj = "Unknown" THEN "" ELSE "v1/Pod"
    IN  IF gvk = ""
        THEN [err |-> "no kind is registered", flavour |-> "", gvk |-> ""]
        ELSE CASE obj = "UnstructuredPod" ->
                     [err |-> "nil", flavour |-> "unstructured", gvk |-> gvk]
               [] obj = "PartialObjectMetadataPod" ->
                     [err |-> "nil", flavour |-> "metadata", gvk |-> gvk]
               [] OTHER ->
                     [err |-> "nil", flavour |-> "structured", gvk |-> gvk]

\* A place in gvkToNameToEntry of one of the three maps.
EntryKey(flavour, gvk, name) ==
    [flavour |-> flavour, gvk |-> gvk, name |-> name]

EntryKeys ==
    {EntryKey(mapFor(obj).flavour, mapFor(obj).gvk, name) :
        obj \in {o \in IndexObjects : mapFor(o).err = "nil"},
        name \in IndexFields}

\* newSharedFieldIndexerMap
EmptyRegistry == [k \in {} |-> [initialized |-> FALSE, extractValue |-> "f"]]

\* &mapEntry{extractValue: extractValue}
mapEntry(initialized, extractValue) ==
    [initialized |-> initialized, extractValue |-> extractValue]

\* sharedFieldIndexerMap.setIfNotPresent
setIfNotPresent(reg, obj, name, extractValue) ==
    LET m == mapFor(obj)
        k == EntryKey(m.flavour, m.gvk, name)
    IN  IF m.err # "nil"
        THEN [registry |-> reg, updated |-> FALSE, err |-> m.err]
        ELSE IF k \in DOMAIN reg
        THEN [registry |-> reg, updated |-> FALSE, err |-> "nil"]
        ELSE [registry |->
                 [x \in DOMAIN reg \cup {k} |->
                     IF x = k THEN mapEntry(FALSE, extractValue) ELSE reg[x]],
              updated |-> TRUE, err |-> "nil"]

\* A Register that replaces the entry of a registration that exists.
RegisterOverwrite(reg, obj, field, extractValue) ==
    LET m == mapFor(obj)
        k == EntryKey(m.flavour, m.gvk, field)
    IN  IF m.err # "nil"
        THEN [registry |-> reg, err |-> m.err]
        ELSE IF k \in DOMAIN reg
        THEN [registry |-> [reg EXCEPT ![k] = mapEntry(FALSE, extractValue)],
              err |-> "already registered"]
        ELSE [registry |-> setIfNotPresent(reg, obj, field, extractValue).registry,
              err |-> "nil"]

\* SharedFieldIndexer.Register
Register(reg, obj, field, extractValue) ==
    LET r == setIfNotPresent(reg, obj, field, extractValue)
    IN  IF r.err # "nil"
        THEN [registry |-> reg, err |-> r.err]
        ELSE IF ~r.updated
        THEN [registry |-> reg, err |-> "already registered"]
        ELSE [registry |-> r.registry, err |-> "nil"]

\* An IndexField that never marks the entry initialized.
IndexFieldForgetful(reg, obj, field, underlying) ==
    LET m == mapFor(obj)
        k == EntryKey(m.flavour, m.gvk, field)
    IN  IF m.err # "nil"
        THEN [registry |-> reg, err |-> m.err, invoked |-> FALSE]
        ELSE IF k \notin DOMAIN reg
        THEN [registry |-> reg, err |-> "unknown field", invoked |-> FALSE]
        ELSE [registry |-> reg, err |-> underlying, invoked |-> TRUE]

\* An IndexField that marks the entry initialized before it calls the
\* underlying indexer.
IndexFieldEager(reg, obj, field, underlying) ==
    LET m == mapFor(obj)
        k == EntryKey(m.flavour, m.gvk, field)
    IN  IF m.err # "nil"
        THEN [registry |-> reg, err |-> m.err, invoked |-> FALSE]
        ELSE IF k \notin DOMAIN reg
        THEN [registry |-> reg, err |-> "unknown field", invoked |-> FALSE]
        ELSE IF reg[k].initialized
        THEN [registry |-> reg, err |-> "nil", invoked |-> FALSE]
        ELSE [registry |-> [reg EXCEPT ![k].initialized = TRUE],
              err |-> underlying, invoked |-> TRUE]

\* SharedFieldIndexer.IndexField; underlying is what s.indexer.IndexField
\* returns when it is called.
IndexField(reg, obj, field, underlying) ==
    LET m == mapFor(obj)
        k == EntryKey(m.flavour, m.gvk, field)
    IN  IF m.err # "nil"
        THEN [registry |-> reg, err |-> m.err, invoked |-> FALSE]
        ELSE IF k \notin DOMAIN reg
        THEN [registry |-> reg, err |-> "unknown field", invoked |-> FALSE]
        ELSE IF reg[k].initialized
        THEN [registry |-> reg, err |-> "nil", invoked |-> FALSE]
        ELSE IF underlying # "nil"
        THEN [registry |-> reg, err |-> underlying, invoked |-> TRUE]
        ELSE [registry |-> [reg EXCEPT ![k].initialized = TRUE],
              err |-> "nil", invoked |-> TRUE]

NoIndexCall == [op |-> "none", err |-> "nil", invoked |-> FALSE]

\* No SharedFieldIndexer in use.
IndexerIdle ==
    /\ registry = EmptyRegistry
    /\ succeeded = [k \in EntryKeys |-> 0]
    /\ indexLast = NoIndexCall

----------------------------------------------------------------------------
(* clientutils: helpers over a client.Client *)

\* The loop of CreateMultiple, GetMultiple, PatchMultiple and DeleteMultiple
\* from the i-th element on; results[i] is what the client returns for the
\* i-th call made on it.  The returned error wraps wraps and names failed.
RECURSIVE callEach(_, _, _, _)
callEach(verb, objs, results, i) ==
    IF i > Len(objs)
    THEN [calls |-> <<>>, err |-> "nil", wraps |-> "nil", failed |-> ""]
    ELSE IF results[i] # "nil"
    THEN [calls |-> << <<verb, objs[i]>> >>, err |-> "error",
          wraps |-> results[i], failed |-> objs[i]]
    ELSE LET rest == callEach(verb, objs, results, i + 1)
         IN  [rest EXCEPT !.calls = << <<verb, objs[i]>> >> \o rest.calls]

\* A loop that goes on to the next element after a failing call.
callEachThrough(verb, objs, results) ==
    LET bad == {i \in 1..Len(objs) : results[i] # "nil"}
        first == CHOOSE i \in bad : \A j \in bad : i <= j
    IN  [calls |-> [i \in 1..Len(objs) |-> <<verb, objs[i]>>],
         err |-> IF bad = {} THEN "nil" ELSE "error",
         wraps |-> IF bad = {} THEN "nil" ELSE results[first],
         failed |-> IF bad = {} THEN "" ELSE objs[first]]

\* CreateMultiple, GetMultiple, PatchMultiple, DeleteMultiple
Multiple(verb, objs, results) == callEach(verb, objs, results, 1)

\* One of the two loops of GetRequestSet.Iterate over the items in the order
\* the map yields them; f[item] is what the callback returns for the item.
RECURSIVE iterateOver(_, _)
iterateOver(order, f) ==
    IF order = <<>> THEN <<>>
    ELSE IF ~f[Head(order)]
    THEN <<Head(order)>>
    ELSE <<Head(order)>> \o iterateOver(Tail(order), f)

\* GetRequestSet.Iterate: the items the callback was called with, in order.
\* The typed requests come first, the unstructured ones second.
Iterate(typedOrder, unstructuredOrder, f) ==
    LET t == iterateOver(typedOrder, f)
    IN  IF t # <<>> /\ ~f[t[Len(t)]]
        THEN t
        ELSE t \o iterateOver(unstructuredOrder, f)

\* controllerutil.ContainsFinalizer, AddFinalizer and RemoveFinalizer on
\* the object's list of finalizers
ContainsFinalizer(fs, finalizer) ==
    \E i \in 1..Len(fs) : fs[i] = finalizer
AddFinalizer(fs, finalizer) ==
    IF ContainsFinalizer(fs, finalizer) THEN fs ELSE Append(fs, finalizer)
RemoveFinalizer(fs, finalizer) ==
    SelectSeq(fs, LAMBDA f : f # finalizer)

\* PatchAddFinalizer and PatchRemoveFinalizer: the finalizers of obj after
\* the call, the calls made on the client, and the error of c.Patch.
PatchAddFinalizer(fs, finalizer, patchResult) ==
    [finalizers |-> AddFinalizer(fs, finalizer), calls |-> <<"Patch">>,
     err |-> patchResult]
PatchRemoveFinalizer(fs, finalizer, patchResult) ==
    [finalizers |-> RemoveFinalizer(fs, finalizer), calls |-> <<"Patch">>,
     err |-> patchResult]

\* PatchEnsureFinalizer
PatchEnsureFinalizer(fs, finalizer, patchResult) ==
    IF ContainsFinalizer(fs, finalizer)
    THEN [finalizers |-> fs, calls |-> <<>>, err |-> "nil",
          modified |-> FALSE]
    ELSE LET r == PatchAddFinalizer(fs, finalizer, patchResult)
         IN  [finalizers |-> r.finalizers, calls |-> r.calls, err |-> r.err,
              modified |-> r.err = "nil"]

\* PatchEnsureNoFinalizer
PatchEnsureNoFinalizer(fs, finalizer, patchResult) ==
    IF ~ContainsFinalizer(fs, finalizer)
    THEN [finalizers |-> fs, calls |-> <<>>, err |-> "nil",
          modified |-> FALSE]
    ELSE LET r == PatchRemoveFinalizer(fs, finalizer, patchResult)
         IN  [finalizers |-> r.finalizers, calls |-> r.calls, err |-> r.err,
              modified |-> r.err = "nil"]

\* An object of CreateOrUseAndPatch: match is what matchFunc returns while
\* obj holds the object, created its creation timestamp, data the field
\* mutateFunc writes.
ClientObject(id, match, created, data) ==
    [id |-> id, match |-> match, created |-> created, data |-> data]

\* best == nil
NoObject == ClientObject("", "no", 0, "")

\* The obj passed to CreateOrUseAndPatch, not created yet.
NewObject == ClientObject("new", "no", 0, "")

\* A lessFunc with the comparison the other way round.
IsYoungerThan(obj, other) == obj.created < other.created

\* IsOlderThan(obj)(other): obj's creation timestamp is after other's.
IsOlderThan(obj, other) == obj.created > other.created

\* mutateFunc: nil, a function writing data, or a function that fails.
mutateFunc(mutate, obj) ==
    CASE mutate = "nil" -> [obj |-> obj, err |-> "nil"]
      [] mutate = "error" -> [obj |-> obj, err |-> "mutate error"]
      [] OTHER -> [obj |-> [obj EXCEPT !.data = mutate], err |-> "nil"]

\* The loop of CreateOrUseAndPatch over objects: obj is set to each object,
\* matchFunc and lessFunc (IsOlderThan(obj)) read it.
RECURSIVE findBest(_, _, _, _)
findBest(objects, obj, best, other) ==
    IF objects = <<>>
    THEN [err |-> "nil", obj |-> obj, best |-> best, other |-> other]
    ELSE LET object == Head(objects)
         IN  IF object.match = "error"
             THEN [err |-> "match error", obj |-> object, best |-> best,
                   other |-> other]
             ELSE IF object.match = "yes" /\ best = NoObject
             THEN findBest(Tail(objects), object, object, other)
             ELSE IF object.match = "yes" /\ ~IsOlderThan(object, best)
             THEN findBest(Tail(objects), object, object,
                           Append(other, best))
             ELSE findBest(Tail(objects), object, best,
                           Append(other, object))

\* controllerutil.OperationResult
OperationResultNone == "unchanged"
OperationResultCreated == "created"
OperationResultUpdated == "updated"

\* What CreateOrUseAndPatch returns: the result, the other objects, the
\* error, with obj as the call leaves it and the calls made on the client.
Returned(result, other, err, obj, calls) ==
    [result |-> result, other |-> other, err |-> err, obj |-> obj,
     calls |-> calls]

\* A CreateOrUseAndPatch that patches whether or not mutateFunc changed obj.
CreateOrUseAndPatchAlways(objects, obj, mutate, writeResult) ==
    LET f == findBest(objects, obj, NoObject, <<>>)
        m == mutateFunc(mutate, IF f.best # NoObject THEN f.best ELSE obj)
        verb == IF f.best # NoObject THEN "Patch" ELSE "Create"
    IN  IF f.err # "nil"
        THEN Returned(OperationResultNone, <<>>, f.err, f.obj, <<>>)
        ELSE IF m.err # "nil"
        THEN Returned(OperationResultNone, <<>>, m.err, m.obj, <<>>)
        ELSE IF writeResult # "nil"
        THEN Returned(OperationResultNone, <<>>, writeResult, m.obj, <<verb>>)
        ELSE Returned(IF f.best # NoObject THEN OperationResultUpdated
                      ELSE OperationResultCreated,
                      f.other, "nil", m.obj, <<verb>>)

\* CreateOrUseAndPatch with lessFunc = IsOlderThan(obj); writeResult is what
\* c.Patch or c.Create returns if it is called.
CreateOrUseAndPatch(objects, obj, mutate, writeResult) ==
    LET base == obj
        f == findBest(objects, obj, NoObject, <<>>)
    IN  IF f.err # "nil"
        THEN Returned(OperationResultNone, <<>>, f.err, f.obj, <<>>)
        ELSE IF f.best # NoObject
        THEN LET baseObj == f.best
                 m == mutateFunc(mutate, f.best)
             IN  IF m.err # "nil"
                 THEN Returned(OperationResultNone, <<>>, m.err, m.obj, <<>>)
                 ELSE IF baseObj = m.obj
                 THEN Returned(OperationResultNone, f.other, "nil", m.obj,
                               <<>>)
                 ELSE IF writeResult # "nil"
                 THEN Returned(OperationResultNone, <<>>, writeResult, m.obj,
                               <<"Patch">>)
                 ELSE Returned(OperationResultUpdated, f.other, "nil", m.obj,
                               <<"Patch">>)
        ELSE LET m == mutateFunc(mutate, base)
             IN  IF m.err # "nil"
                 THEN Returned(OperationResultNone, <<>>, m.err, m.obj, <<>>)
                 ELSE IF writeResult # "nil"
                 THEN Returned(OperationResultNone, <<>>, writeResult, m.obj,
                               <<"Create">>)
                 ELSE Returned(OperationResultCreated, f.other, "nil", m.obj,
                               <<"Create">>)

NoClientCall == [op |-> "none"]

\* No helper called yet, the object without finalizers.
ClientIdle ==
    /\ finalizers = <<>>
    /\ clientLast = NoClientCall

----------------------------------------------------------------------------
(* conditionutils: inputs *)

ConditionTypes == {"Ready", "Synced"}

\* The UpdateOptions a caller passes.
UpdateOptions ==
    {UpdateStatus("True"), UpdateStatus("False"), UpdateReason("R"),
     UpdateMessage("M"), UpdateObservedGeneration(1)}

RECURSIVE OptSeqs(_)
OptSeqs(n) ==
    IF n = 0
    THEN {<<>>}
    ELSE LET shorter == OptSeqs(n - 1)
         IN  shorter \cup
             {Append(s, o) : s \in {x \in shorter : Len(x) = n - 1},
                             o \in UpdateOptions}

\* The option lists passed to UpdateSlice.
SliceOptSeqs ==
    {<<>>,
     <<UpdateStatus("True")>>,
     <<UpdateStatus("False"), UpdateReason("R")>>,
     <<UpdateMessage("M")>>,
     <<UpdateStatus("False"), UpdateObservedGeneration(1)>>}

\* NewAccessor(AccessorOptions{...}) after SetDefaults.
NewAccessor(disable, transition) ==
    [disableTimestampUpdates |-> disable, transition |-> transition]

\* alias.go: DefaultAccessor = NewAccessor(AccessorOptions{})
DefaultAccessor == NewAccessor(FALSE, DefaultTransition)

Accessors ==
    {DefaultAccessor,
     NewAccessor(FALSE, FieldsTransition(TRUE, TRUE, FALSE)),
     NewAccessor(FALSE, FieldsTransition(FALSE, FALSE, TRUE)),
     NewAccessor(TRUE, DefaultTransition)}

\* A condition as a controller finds it: reported earlier, before the clock's
\* first reading.
SeedCond(typ, status) ==
    [ZeroCond EXCEPT !.Type = typ, !.Status = status]

NoCondCall == [op |-> "none", typ |-> "", now |-> ZeroTime, err |-> "nil"]

\* memorystore.New(scheme), nothing called yet.
StoreIdle ==
    /\ heap = InitHeap
    /\ entries = EmptyEntries
    /\ mutations = 0
    /\ storeLast = [op |-> "none", err |-> "nil", out |-> {}]

----------------------------------------------------------------------------
(* conditionutils: Accessor.Update on one condition *)

InitUpdate ==
    /\ acc \in Accessors
    /\ elemType \in ElemTypes
    /\ clock = 1
    /\ cond \in {SeedCond("Ready", ""), SeedCond("Ready", "True")}
    /\ conds = <<>>
    /\ condCalls = 0
    /\ condLast = NoCondCall
    /\ StoreIdle
    /\ SwitchesIdle
    /\ IndexerIdle
    /\ ClientIdle

\* FakeClock.Step
Tick ==
    /\ clock < MaxClock
    /\ clock' = clock + 1
    /\ UNCHANGED <<acc, elemType, cond, conds, condCalls, condLast>>
    /\ UNCHANGED outsideCond

\* The Status values the UpdateStatus options of opts give, in order.
StatusValues(opts) ==
    LET statusOpts == SelectSeq(opts, LAMBDA o : o.field = StatusField)
    IN  [i \in 1..Len(statusOpts) |-> statusOpts[i].value]

\* acc.Update(&cond, opts...); of the options, the call record keeps the
\* Status values.
UpdateCall(opts) ==
    LET r == Update(acc, elemType, clock, cond, opts)
    IN  /\ cond' = r.cond
        /\ condLast' = [op |-> "Update", typ |-> cond.Type,
                        statuses |-> StatusValues(opts),
                        now |-> clock, err |-> r.err]
        /\ UNCHANGED <<acc, elemType, clock, conds, condCalls>>
        /\ UNCHANGED outsideCond

\* The direct setter calls a caller makes: a.SetType(&cond, typ),
\* a.SetStatus(&cond, status), ..., a.SetLastTransitionTime(&cond, time) and
\* the IfExists variants, with the values the options use and the times the
\* clock can show.  The setters of string fields:
StringSetterCalls ==
    {[setter |-> "SetType", arg |-> typ] : typ \in ConditionTypes}
    \cup {[setter |-> "SetStatus", arg |-> st] : st \in {"True", "False"}}
    \cup {[setter |-> "SetReason", arg |-> "R"],
          [setter |-> "SetMessage", arg |-> "M"]}

\* The setters of the generation and of the two timestamps:
NumberSetterCalls ==
    {[setter |-> "SetObservedGeneration", arg |-> 1]}
    \cup {[setter |-> f, arg |-> time] :
             f \in {"SetLastUpdateTime", "SetLastUpdateTimeIfExists",
                    "SetLastTransitionTime",
                    "SetLastTransitionTimeIfExists"},
             time \in 1..MaxClock}

\* A direct setter call on the condition: no timestamp handling.
SetFieldCall(call) ==
    LET r == Setter(elemType, cond, call)
    IN  /\ condCalls < MaxSetterCalls
        /\ condCalls' = condCalls + 1
        /\ cond' = r.cond
        /\ condLast' = [op |-> "Set", typ |-> "", statuses |-> <<>>,
                        now |-> ZeroTime, err |-> r.err]
        /\ UNCHANGED <<acc, elemType, clock, conds>>
        /\ UNCHANGED outsideCond

NextUpdate ==
    \/ Tick
    \/ \E opts \in OptSeqs(MaxOpts) : UpdateCall(opts)
    \/ \E call \in StringSetterCalls : SetFieldCall(call)
    \/ \E call \in NumberSetterCalls : SetFieldCall(call)

SpecUpdate == InitUpdate /\ [][NextUpdate]_vars

----------------------------------------------------------------------------
(* conditionutils: Accessor.UpdateSlice on a slice *)

InitSlice ==
    /\ acc \in Accessors
    /\ elemType \in ElemTypes
    /\ clock = 1
    /\ cond = ZeroCond
    /\ conds \in {<<>>,
                  <<SeedCond("Ready", "True")>>,
                  <<SeedCond("Synced", "True"), SeedCond("Synced", "False")>>}
    /\ condCalls = 0
    /\ condLast = NoCondCall
    /\ StoreIdle
    /\ SwitchesIdle
    /\ IndexerIdle
    /\ ClientIdle

\* acc.UpdateSlice(&conds, typ, opts...); the clock shows later when the
\* call reads it the second time and when the call returns.
UpdateSliceCall(typ, opts, later) ==
    LET r == UpdateSlice(acc, elemType, clock, later, conds, typ, opts)
    IN  /\ condCalls < MaxCalls
        /\ condCalls' = condCalls + 1
        /\ conds' = r.slice
        /\ clock' = later
        /\ condLast' = [op |-> "UpdateSlice", typ |-> typ, opts |-> opts,
                        now |-> clock, err |-> r.err]
        /\ UNCHANGED <<acc, elemType, cond>>
        /\ UNCHANGED outsideCond

\* A direct setter call on an element of the slice, a.SetStatus(&conds[i],
\* status) and the like: no timestamp handling and no look at the other
\* elements.
SetElementCall(i, call) ==
    LET r == Setter(elemType, conds[i], call)
    IN  /\ condCalls < MaxCalls
        /\ condCalls' = condCalls + 1
        /\ conds' = [conds EXCEPT ![i] = r.cond]
        /\ condLast' = [op |-> "Set", typ |-> "", opts |-> <<>>,
                        now |-> ZeroTime, err |-> r.err]
        /\ UNCHANGED <<acc, elemType, clock, cond>>
        /\ UNCHANGED outsideCond

NextSlice ==
    \/ Tick
    \/ \E typ \in ConditionTypes, opts \in SliceOptSeqs,
          later \in clock..MaxClock :
          UpdateSliceCall(typ, opts, later)
    \/ \E i \in DOMAIN conds, call \in StringSetterCalls :
          SetElementCall(i, call)
    \/ \E i \in DOMAIN conds, call \in NumberSetterCalls :
          SetElementCall(i, call)

SpecSlice == InitSlice /\ [][NextSlice]_vars

----------------------------------------------------------------------------
(* memorystore: the caller's calls *)

CondIdle ==
    /\ acc = DefaultAccessor
    /\ elemType = "Condition"
    /\ clock = 1
    /\ cond = ZeroCond
    /\ conds = <<>>
    /\ condCalls = 0
    /\ condLast = NoCondCall

InitStore ==
    CondIdle /\ StoreIdle /\ SwitchesIdle /\ IndexerIdle /\ ClientIdle

\* The record of a call: the verb, the error returned and, for Get and List,
\* the objects handed back to the caller.
Called(op, err, out) == [op |-> op, err |-> err, out |-> out]

\* s.Create(ctx, p, opts...)
CreateCall(p, o) ==
    LET r == Create(entries, heap, p, o)
    IN  /\ entries' = r.entries
        /\ storeLast' = Called("Create", r.err, {})
        /\ UNCHANGED <<heap, mutations>>
        /\ UNCHANGED outsideStore

\* s.Get(ctx, objectKey, &T{}, opts...) with T of kind gk
GetCall(gk, objectKey, o) ==
    LET r == Get(entries, heap, gk, objectKey, o)
    IN  /\ storeLast' = Called("Get", r.err,
                                IF r.found THEN {r.obj} ELSE {})
        /\ UNCHANGED <<heap, entries, mutations>>
        /\ UNCHANGED outsideStore

\* s.List(ctx, &TList{}, opts...) with T of kind gk
ListCall(gk, o) ==
    LET r == List(entries, heap, gk, o)
    IN  /\ storeLast' = Called("List", r.err,
                                {heap[entries[k]] : k \in r.refs})
        /\ UNCHANGED <<heap, entries, mutations>>
        /\ UNCHANGED outsideStore

\* s.Delete(ctx, p, opts...)
DeleteCall(p, o) ==
    LET r == Delete(entries, heap, p, o)
    IN  /\ entries' = r.entries
        /\ storeLast' = Called("Delete", r.err, {})
        /\ UNCHANGED <<heap, mutations>>
        /\ UNCHANGED outsideStore

\* s.DeleteAllOf(ctx, &T{}, opts...) with T of kind gk
DeleteAllOfCall(gk, o) ==
    LET r == DeleteAllOf(entries, heap, gk, o)
    IN  /\ entries' = r.entries
        /\ storeLast' = Called("DeleteAllOf", r.err, {})
        /\ UNCHANGED <<heap, mutations>>
        /\ UNCHANGED outsideStore

\* s.Update(ctx, p, opts...)
StoreUpdateCall(p, o) ==
    LET r == StoreUpdate(entries, heap, p, o)
    IN  /\ entries' = r.entries
        /\ storeLast' = Called("Update", r.err, {})
        /\ UNCHANGED <<heap, mutations>>
        /\ UNCHANGED outsideStore

\* s.Patch(ctx, p, patch, opts...)
PatchCall(p) ==
    /\ storeLast' = Called("Patch", Patch, {})
    /\ UNCHANGED <<heap, entries, mutations>>
    /\ UNCHANGED outsideStore

\* The caller writes a field of an object it holds a pointer to.
Mutate(p, field, value) ==
    /\ mutations < MaxMutations
    /\ Registered(p)
    /\ heap[p][field] # value
    /\ heap' = [heap EXCEPT ![p][field] = value]
    /\ mutations' = mutations + 1
    /\ UNCHANGED <<entries, storeLast>>
    /\ UNCHANGED outsideStore

\* The calls made: every object, kind and key without options and with the
\* list filters, and every single option of every verb with cm1 (for Get, its
\* key; for List and DeleteAllOf, its kind), as the package's tests do.
OptionCalls(ps, fields) ==
    {<<p, NoOptions>> : p \in ps}
    \cup {<<"cm1", o>> : o \in OptionsOf(fields)}

FilterCalls(filters, others) ==
    {<<gk, o>> : gk \in GroupKinds, o \in filters}
    \cup {<<GroupKindOf("cm1"), o>> : o \in others}

DeleteAllOfOptions(l, d) == [ListOptions |-> l, DeleteOptions |-> d]

CreateCalls == OptionCalls(Pointers, CreateOptionFields)
GetCalls ==
    {<<gk, k, NoOptions>> : gk \in GroupKinds, k \in ObjectKeys}
    \cup {<<GroupKindOf("cm1"), ObjectKeyFromObject(InitHeap["cm1"]), o>> :
             o \in OptionsOf(GetOptionFields)}
ListCalls == FilterCalls(ListFilters, OptionsOf(ListOptionFields))
DeleteCalls == OptionCalls(Pointers, DeleteOptionFields)
DeleteAllOfCalls ==
    FilterCalls({DeleteAllOfOptions(l, NoOptions) : l \in ListFilters},
                {DeleteAllOfOptions(l, NoOptions) :
                    l \in OptionsOf(ListOptionFields)}
                \cup {DeleteAllOfOptions(NoOptions, d) :
                         d \in OptionsOf(DeleteOptionFields)})
UpdateCalls == OptionCalls(Pointers, UpdateOptionFields)

\* The objects the caller goes on writing to after handing them to the Store.
MutablePointers == {"cm1", "cm2"}

NextStore ==
    \/ \E c \in CreateCalls : CreateCall(c[1], c[2])
    \/ \E c \in GetCalls : GetCall(c[1], c[2], c[3])
    \/ \E c \in ListCalls : ListCall(c[1], c[2])
    \/ \E c \in DeleteCalls : DeleteCall(c[1], c[2])
    \/ \E c \in DeleteAllOfCalls : DeleteAllOfCall(c[1], c[2])
    \/ \E c \in UpdateCalls : StoreUpdateCall(c[1], c[2])
    \/ \E p \in Pointers : PatchCall(p)
    \/ \E p \in MutablePointers, ns \in Namespaces : Mutate(p, "Namespace", ns)
    \/ \E p \in MutablePointers, n \in Names : Mutate(p, "Name", n)
    \/ \E p \in MutablePointers, l \in LabelSets : Mutate(p, "Labels", l)

SpecStore == InitStore /\ [][NextStore]_vars

----------------------------------------------------------------------------
(* conditionutils: properties *)

\* Whether a field the transition is configured to look at differs.
CheckpointedChanged(f, before, after) ==
    \/ f.IncludeStatus /\ before.Status # after.Status
    \/ f.IncludeReason /\ before.Reason # after.Reason
    \/ f.IncludeMessage /\ before.Message # after.Message

\* The value the last option for `field` in opts gives, else `default`.
LastValue(opts, field, default) ==
    LET hits == {i \in 1..Len(opts) : opts[i].field = field}
    IN  IF hits = {} THEN default
        ELSE opts[CHOOSE i \in hits : \A j \in hits : j <= i].value

UpdatedFields ==
    {StatusField, ReasonField, MessageField, ObservedGenerationField}

TypeAbsent(slice, typ) == \A i \in 1..Len(slice) : slice[i].Type # typ

FirstOfType(slice, typ) ==
    CHOOSE i \in 1..Len(slice) :
        /\ slice[i].Type = typ
        /\ \A j \in 1..(i - 1) : slice[j].Type # typ

TypesDistinct(slice) ==
    \A i, j \in 1..Len(slice) : i # j => slice[i].Type # slice[j].Type

\* This step is a call of Accessor.Update.
IsUpdateStep == condLast'.op = "Update" /\ clock' = clock

\* This step is a call of Accessor.UpdateSlice.
IsUpdateSliceStep ==
    condLast'.op = "UpdateSlice" /\ condCalls' = condCalls + 1

\* C1: with timestamp management enabled, a successful Update writes
\* LastTransitionTime (to the clock's time) if and only if a checkpointed
\* field differs between the condition before the first and after the last
\* field update of the call; otherwise LastTransitionTime keeps its value.
C1_TransitionTimeIffCheckpointChanged ==
    [][(IsUpdateStep /\ ~acc.disableTimestampUpdates /\ condLast'.err = "nil")
        => IF CheckpointedChanged(acc.transition, cond, cond')
           THEN cond'.LastTransitionTime = clock
           ELSE cond'.LastTransitionTime = cond.LastTransitionTime]_vars

\* C1 witness: Status was changed and changed back in one call under a
\* transition that is configured with Reason as well; LastUpdateTime advanced,
\* LastTransitionTime did not.
C1_Witness ==
    /\ condLast.op = "Update"
    /\ condLast.err = "nil"
    /\ ~acc.disableTimestampUpdates
    /\ acc.transition.IncludeReason
    /\ condLast.statuses = <<"False", "True">>
    /\ cond.Status = "True"
    /\ cond.LastUpdateTime = condLast.now
    /\ cond.LastTransitionTime # condLast.now

\* C2: with the default accessor, a successful Update with one Status option
\* sets LastUpdateTime to the clock's time, and sets LastTransitionTime to the
\* clock's time if the new Status differs from the current one and leaves it
\* unchanged if it is the same.
C2_DefaultAccessorStatusUpdate ==
    [][(/\ IsUpdateStep
        /\ acc = DefaultAccessor
        /\ condLast'.err = "nil"
        /\ Len(condLast'.statuses) = 1)
        => LET s == condLast'.statuses[1]
           IN  /\ cond'.Status = s
               /\ valueHasField(elemType, LastUpdateTimeField)
                     => cond'.LastUpdateTime = clock
               /\ IF s # cond.Status
                  THEN cond'.LastTransitionTime = clock
                  ELSE cond'.LastTransitionTime = cond.LastTransitionTime]_vars

\* C2 witness: the default accessor updated a DeploymentCondition with the
\* Status it already had at a later time than its last transition.
C2_Witness ==
    /\ condLast.op = "Update"
    /\ condLast.err = "nil"
    /\ acc = DefaultAccessor
    /\ elemType = "DeploymentCondition"
    /\ condLast.statuses = <<"False">>
    /\ cond.Status = "False"
    /\ cond.LastUpdateTime = condLast.now
    /\ cond.LastTransitionTime # ZeroTime
    /\ cond.LastTransitionTime < cond.LastUpdateTime

\* C3: a successful UpdateSlice for a type the slice does not contain appends
\* exactly one element: the old elements keep value and order, the new one has
\* the given Type, LastTransitionTime set to a time the clock showed during
\* the call (its second reading if the options make a transition of the new
\* condition, its first reading otherwise) and, for every field an option was
\* supplied for, the value of the last such option.
C3_AppendsOneElement ==
    [][(/\ IsUpdateSliceStep
        /\ condLast'.err = "nil"
        /\ TypeAbsent(conds, condLast'.typ))
        => /\ Len(conds') = Len(conds) + 1
           /\ SubSeq(conds', 1, Len(conds)) = conds
           /\ LET n == conds'[Len(conds')]
              IN  /\ n.Type = condLast'.typ
                  /\ n.LastTransitionTime =
                        IF /\ ~acc.disableTimestampUpdates
                           /\ CheckpointedChanged(acc.transition, ZeroCond, n)
                        THEN clock'
                        ELSE clock
                  /\ n.LastTransitionTime # ZeroTime
                  /\ \A f \in UpdatedFields :
                        n[f] = LastValue(condLast'.opts, f, ZeroCond[f])]_vars

\* C3 witness: a second type was appended behind an existing element, with two
\* field updates applied; the options made a transition of the new condition
\* and the clock had moved between the two readings, so the element carries
\* the second one.
C3_Witness ==
    /\ condLast.op = "UpdateSlice"
    /\ condLast.err = "nil"
    /\ condLast.typ = "Synced"
    /\ condLast.opts = <<UpdateStatus("False"), UpdateReason("R")>>
    /\ ~acc.disableTimestampUpdates
    /\ Len(conds) = 2
    /\ conds[1].Type = "Ready"
    /\ conds[2].Type = "Synced"
    /\ conds[2].Status = "False"
    /\ conds[2].Reason = "R"
    /\ condLast.now < conds[2].LastTransitionTime

\* C4 (as claimed): whenever UpdateSlice appends a condition, LastUpdateTime
\* and LastTransitionTime of the appended element are both a time the clock
\* showed during the call, whatever the accessor's options and the field
\* updates.
C4_AppendSetsBothTimestamps ==
    [][(/\ IsUpdateSliceStep
        /\ condLast'.err = "nil"
        /\ TypeAbsent(conds, condLast'.typ))
        => LET n == conds'[Len(conds')]
           IN  /\ valueHasField(elemType, LastTransitionTimeField)
                     => n.LastTransitionTime \in {clock, clock'}
               /\ valueHasField(elemType, LastUpdateTimeField)
                     => n.LastUpdateTime \in {clock, clock'}]_vars

\* C5: UpdateSlice for a type the slice contains works in place on the first
\* element of that type: length and order stay, every other element is
\* unmodified, and after a successful call the element holds, for every field
\* an option was supplied for, the value of the last such option.
C5_UpdatesFirstMatchInPlace ==
    [][(IsUpdateSliceStep /\ ~TypeAbsent(conds, condLast'.typ))
        => LET i == FirstOfType(conds, condLast'.typ)
           IN  /\ Len(conds') = Len(conds)
               /\ \A j \in 1..Len(conds) : j # i => conds'[j] = conds[j]
               /\ conds'[i].Type = condLast'.typ
               /\ condLast'.err = "nil"
                     => \A f \in UpdatedFields :
                           conds'[i][f] =
                              LastValue(condLast'.opts, f, conds[i][f])]_vars

\* C5 witness: of two elements of the same type the first one was updated and
\* the second one still is as it was.
C5_Witness ==
    /\ condLast.op = "UpdateSlice"
    /\ condLast.err = "nil"
    /\ condLast.typ = "Synced"
    /\ condLast.opts = <<UpdateStatus("False"), UpdateReason("R")>>
    /\ Len(conds) >= 2
    /\ conds[1].Type = "Synced" /\ conds[1].Status = "False"
    /\ conds[1].Reason = "R"
    /\ conds[2] = SeedCond("Synced", "False")

\* C6: an UpdateSlice call on a slice with pairwise distinct Types leaves the
\* Types pairwise distinct.  (A direct SetType on an element is not an
\* UpdateSlice call and can make two Types equal.)
C6_TypeUniquenessPreserved ==
    [][(IsUpdateSliceStep /\ TypesDistinct(conds))
        => TypesDistinct(conds')]_vars

\* C6 witness: starting from the empty slice, three calls produced a slice of
\* two elements with distinct types (one call hit an existing type).
C6_Witness ==
    /\ condLast.op = "UpdateSlice"
    /\ condCalls = 3
    /\ Len(conds) = 2
    /\ conds[1].Type = "Ready" /\ conds[2].Type = "Synced"
    /\ conds[1].LastTransitionTime # ZeroTime
    /\ conds[2].LastTransitionTime # ZeroTime

----------------------------------------------------------------------------
(* memorystore: properties *)

\* The options each verb's documentation names as not supported (Get's
\* validation names Raw; DeleteAllOf refers to List and Delete).
UnsupportedByCreate == {"Raw", "DryRun"}
UnsupportedByGet == {"Raw"}
UnsupportedByList == {"Raw", "Continue", "Limit", "FieldSelector"}
UnsupportedByDelete ==
    {"DryRun", "GracePeriodSeconds", "Preconditions", "PropagationPolicy"}
UnsupportedByUpdate == {"DryRun", "Raw", "FieldManager"}

\* The errors that name an option as not supported.
UnsupportedErrors ==
    {"raw is not supported", "dry run is not supported",
     "continue is not supported", "limit is not supported",
     "field selector is not supported",
     "grace period seconds is not supported",
     "preconditions is not supported", "propagation policy is not supported",
     "field manager is not supported"}

\* This step is a call of the verb op.
IsCall(op) == storeLast'.op = op /\ mutations' = mutations

\* The call returns an error for the option; the entries and the objects
\* they hold are as before.
Rejected ==
    /\ storeLast'.err \in UnsupportedErrors
    /\ entries' = entries
    /\ \A k \in DOMAIN entries : heap'[entries[k]] = heap[entries[k]]

\* C7: a Create, Get, List, Delete, DeleteAllOf or Update call that carries
\* an option the verb documents as not supported returns an error and leaves
\* the set of entries and their values as they were.
C7_UnsupportedOptionRejectedWithoutMutation ==
    [][/\ IsCall("Create") =>
             \A c \in CreateCalls :
                (c[2].set \cap UnsupportedByCreate # {}
                 /\ CreateCall(c[1], c[2])) => Rejected
       /\ IsCall("Get") =>
             \A c \in GetCalls :
                (c[3].set \cap UnsupportedByGet # {}
                 /\ GetCall(c[1], c[2], c[3])) => Rejected
       /\ IsCall("List") =>
             \A c \in ListCalls :
                (c[2].set \cap UnsupportedByList # {}
                 /\ ListCall(c[1], c[2])) => Rejected
       /\ IsCall("Delete") =>
             \A c \in DeleteCalls :
                (c[2].set \cap UnsupportedByDelete # {}
                 /\ DeleteCall(c[1], c[2])) => Rejected
       /\ IsCall("DeleteAllOf") =>
             \A c \in DeleteAllOfCalls :
                (/\ \/ c[2].ListOptions.set \cap UnsupportedByList # {}
                    \/ c[2].DeleteOptions.set \cap UnsupportedByDelete # {}
                 /\ DeleteAllOfCall(c[1], c[2])) => Rejected
       /\ IsCall("Update") =>
             \A c \in UpdateCalls :
                (c[2].set \cap UnsupportedByUpdate # {}
                 /\ StoreUpdateCall(c[1], c[2])) => Rejected]_vars

\* C7 witness: a DeleteAllOf was refused for an option while the store held
\* two ConfigMaps, which are still there.
C7_Witness ==
    /\ storeLast.op = "DeleteAllOf"
    /\ storeLast.err = "propagation policy is not supported"
    /\ ObjectRefFromObject(InitHeap, "cm1") \in DOMAIN entries
    /\ ObjectRefFromObject(InitHeap, "cm2") \in DOMAIN entries

\* The option kinds a write verb refuses as not supported.
RefusedByOneWriteVerb == {"DryRun", "Raw", "FieldManager"}

\* C8 (as claimed): every write verb returns an error for every option of a
\* kind that some write verb refuses as not supported (dry-run, raw,
\* field-manager).
C8_WriteVerbsRejectTheSameOptionKinds ==
    [][/\ IsCall("Create") =>
             \A c \in CreateCalls :
                (c[2].set \cap RefusedByOneWriteVerb # {}
                 /\ CreateCall(c[1], c[2]))
                => storeLast'.err \in UnsupportedErrors
       /\ IsCall("Update") =>
             \A c \in UpdateCalls :
                (c[2].set \cap RefusedByOneWriteVerb # {}
                 /\ StoreUpdateCall(c[1], c[2]))
                => storeLast'.err \in UnsupportedErrors
       /\ IsCall("Delete") =>
             \A c \in DeleteCalls :
                (c[2].set \cap RefusedByOneWriteVerb # {}
                 /\ DeleteCall(c[1], c[2]))
                => storeLast'.err \in UnsupportedErrors
       /\ IsCall("DeleteAllOf") =>
             \A c \in DeleteAllOfCalls :
                (c[2].DeleteOptions.set \cap RefusedByOneWriteVerb # {}
                 /\ DeleteAllOfCall(c[1], c[2]))
                => storeLast'.err \in UnsupportedErrors]_vars

\* Get with the key and kind k succeeds and yields a value deep-equal to the
\* object p, which the store holds under k.
GetYields(e, h, k, p) ==
    /\ k \in DOMAIN e
    /\ e[k] = p
    /\ LET r == Get(e, h, k.GroupKind, k.Key, NoOptions)
       IN  r.err = "nil" /\ r.found /\ r.obj = h[p]

\* This step is a successful Update, Delete or DeleteAllOf of the key k.
UpdatesOrDeletes(k) ==
    /\ storeLast'.err = "nil"
    /\ \/ /\ IsCall("Update")
          /\ \E c \in UpdateCalls :
                /\ ObjectRefFromObject(heap, c[1]) = k
                /\ StoreUpdateCall(c[1], c[2])
       \/ /\ IsCall("Delete")
          /\ \E c \in DeleteCalls :
                /\ ObjectRefFromObject(heap, c[1]) = k
                /\ DeleteCall(c[1], c[2])
       \/ /\ IsCall("DeleteAllOf")
          /\ \E c \in DeleteAllOfCalls :
                /\ k \in Matching(entries, heap, c[1], c[2].ListOptions)
                /\ DeleteAllOfCall(c[1], c[2])

\* C9: right after a successful Create(obj), Get with obj's key and kind
\* succeeds and yields a value deep-equal to obj, and this stays so over every
\* step that is not an Update, Delete or DeleteAllOf of that key, as long as
\* the caller leaves obj as it was: calls for other keys and failed calls do
\* not affect the result.
C9_CreateGetRoundTrip ==
    [][/\ (IsCall("Create") /\ storeLast'.err = "nil") =>
             \A c \in CreateCalls :
                CreateCall(c[1], c[2])
                => GetYields(entries', heap',
                             ObjectRefFromObject(heap, c[1]), c[1])
       /\ \A k \in DOMAIN entries :
             (/\ heap'[entries[k]] = heap[entries[k]]
              /\ GetYields(entries, heap, k, entries[k])
              /\ ~UpdatesOrDeletes(k))
             => GetYields(entries', heap', k, entries[k])]_vars

\* C9 witness: cm1 was created, then cm2 and the Pod, which has cm1's
\* namespace and name, and a Get with cm1's key and kind yielded cm1.
C9_Witness ==
    /\ storeLast.op = "Get"
    /\ storeLast.err = "nil"
    /\ storeLast.out = {InitHeap["cm1"]}
    /\ heap["cm1"] = InitHeap["cm1"]
    /\ DOMAIN entries =
          {ObjectRefFromObject(InitHeap, p) : p \in {"cm1", "cm2", "pod"}}
    /\ entries[ObjectRefFromObject(InitHeap, "cm1")] = "cm1"

\* C10: a Create (with supported options, of a registered type) of an object
\* whose key is present fails with AlreadyExists and leaves every entry and
\* its value unchanged; a Create of an absent key succeeds and adds exactly
\* the entry of that key, holding the object.
C10_CreateExistingFailsAbsentAddsOne ==
    [][IsCall("Create") =>
          \A c \in CreateCalls :
             (/\ c[2].set \cap UnsupportedByCreate = {}
              /\ Registered(c[1])
              /\ CreateCall(c[1], c[2]))
             => LET k == [GroupKind |-> GroupKindOf(c[1]),
                          Key |-> [Namespace |-> heap[c[1]].Namespace,
                                   Name |-> heap[c[1]].Name]]
                IN  /\ heap' = heap
                    /\ IF k \in DOMAIN entries
                       THEN /\ storeLast'.err = "AlreadyExists"
                            /\ entries' = entries
                       ELSE /\ storeLast'.err = "nil"
                            /\ DOMAIN entries' = DOMAIN entries \cup {k}
                            /\ entries'[k] = c[1]
                            /\ \A j \in DOMAIN entries :
                                  entries'[j] = entries[j]]_vars

\* C10 witness: with cm1 and cm2 stored, a Create of an object with cm1's key
\* failed with AlreadyExists, and the store holds what it held.
C10_Witness ==
    /\ storeLast.op = "Create"
    /\ storeLast.err = "AlreadyExists"
    /\ DOMAIN entries =
          {ObjectRefFromObject(InitHeap, p) : p \in {"cm1", "cm2"}}
    /\ entries[ObjectRefFromObject(InitHeap, "cm1")] = "cm1"
    /\ heap["cm1"] = InitHeap["cm1"]
    /\ heap["cm3"] # heap["cm1"]

\* The store and the caller's objects are as before the call.
StoreUnchanged == entries' = entries /\ heap' = heap

\* C11: a Get, Update or Delete (with supported options, of a registered
\* type) of a key that is not present fails with NotFound and leaves the
\* store unchanged, so an Update never inserts; and right after a successful
\* Delete the key is gone and a Get of it fails with NotFound.
C11_AbsentKeyNotFound ==
    [][/\ IsCall("Get") =>
             \A c \in GetCalls :
                (/\ c[3].set \cap UnsupportedByGet = {}
                 /\ [GroupKind |-> c[1], Key |-> c[2]] \notin DOMAIN entries
                 /\ GetCall(c[1], c[2], c[3]))
                => /\ storeLast'.err = "NotFound"
                   /\ storeLast'.out = {}
                   /\ StoreUnchanged
       /\ IsCall("Update") =>
             \A c \in UpdateCalls :
                (/\ c[2].set \cap UnsupportedByUpdate = {}
                 /\ Registered(c[1])
                 /\ ObjectRefFromObject(heap, c[1]) \notin DOMAIN entries
                 /\ StoreUpdateCall(c[1], c[2]))
                => storeLast'.err = "NotFound" /\ StoreUnchanged
       /\ IsCall("Delete") =>
             \A c \in DeleteCalls :
                (/\ c[2].set \cap UnsupportedByDelete = {}
                 /\ Registered(c[1])
                 /\ DeleteCall(c[1], c[2]))
                => LET k == ObjectRefFromObject(heap, c[1])
                   IN  IF k \notin DOMAIN entries
                       THEN storeLast'.err = "NotFound" /\ StoreUnchanged
                       ELSE /\ storeLast'.err = "nil"
                            /\ k \notin DOMAIN entries'
                            /\ Get(entries', heap', k.GroupKind, k.Key,
                                   NoOptions).err = "NotFound"]_vars

\* C11 witness: an Update of cm1 failed with NotFound while the store held
\* cm2 alone, and it still holds cm2 alone.
C11_Witness ==
    /\ storeLast.op = "Update"
    /\ storeLast.err = "NotFound"
    /\ DOMAIN entries = {ObjectRefFromObject(InitHeap, "cm2")}
    /\ entries[ObjectRefFromObject(InitHeap, "cm2")] = "cm2"
    /\ heap = InitHeap

\* C12: after a successful Update(obj) the key of obj, which was present,
\* holds exactly obj (a Get of the key yields obj's content and nothing of
\* the value stored before), the set of keys is as before and every other
\* entry is unchanged.
C12_UpdateReplacesWholesale ==
    [][IsCall("Update") =>
          \A c \in UpdateCalls :
             (StoreUpdateCall(c[1], c[2]) /\ storeLast'.err = "nil")
             => LET k == ObjectRefFromObject(heap, c[1])
                IN  /\ k \in DOMAIN entries
                    /\ DOMAIN entries' = DOMAIN entries
                    /\ entries'[k] = c[1]
                    /\ Get(entries', heap', k.GroupKind, k.Key,
                           NoOptions).obj = heap[c[1]]
                    /\ \A j \in DOMAIN entries \ {k} :
                          entries'[j] = entries[j]
                    /\ heap' = heap]_vars

\* C12 witness: cm1 was stored with its label; an Update with cm3, which has
\* cm1's key and no labels, replaced it, and cm2 is stored as before.
C12_Witness ==
    /\ storeLast.op = "Update"
    /\ storeLast.err = "nil"
    /\ heap = InitHeap
    /\ DOMAIN entries =
          {ObjectRefFromObject(InitHeap, p) : p \in {"cm1", "cm2"}}
    /\ entries[ObjectRefFromObject(InitHeap, "cm1")] = "cm3"
    /\ entries[ObjectRefFromObject(InitHeap, "cm2")] = "cm2"
    /\ Get(entries, heap, GroupKindOf("cm1"),
           ObjectKeyFromObject(InitHeap["cm1"]), NoOptions).obj.Labels = {}

\* The stored objects of kind gk that are in the namespace asked for, if one
\* is, and carry the labels asked for, if some are.
Selected(e, h, gk, o) ==
    {k \in DOMAIN e :
        /\ k.GroupKind = gk
        /\ o.Namespace # "" => h[e[k]].Namespace = o.Namespace
        /\ \A labels \in o.LabelSelector :
              \A l \in labels : l \in h[e[k]].Labels}

\* C13: a List with supported options returns exactly the stored objects of
\* the list's kind that are in the requested namespace, when one is given,
\* and match the label selector, when one is given, and leaves the store
\* unchanged.
C13_ListReturnsExactlyTheMatches ==
    [][IsCall("List") =>
          \A c \in ListCalls :
             (c[2].set \cap UnsupportedByList = {} /\ ListCall(c[1], c[2]))
             => /\ storeLast'.err = "nil"
                /\ storeLast'.out =
                      {heap[entries[k]] :
                          k \in Selected(entries, heap, c[1], c[2])}
                /\ StoreUnchanged]_vars

\* C13 witness: with cm1, cm2 and the Pod stored, a List returned cm1 alone.
C13_Witness ==
    /\ storeLast.op = "List"
    /\ storeLast.err = "nil"
    /\ storeLast.out = {InitHeap["cm1"]}
    /\ heap = InitHeap
    /\ DOMAIN entries =
          {ObjectRefFromObject(InitHeap, p) : p \in {"cm1", "cm2", "pod"}}
    /\ entries[ObjectRefFromObject(InitHeap, "cm1")] = "cm1"
    /\ entries[ObjectRefFromObject(InitHeap, "cm2")] = "cm2"

\* C14: a successful DeleteAllOf removes exactly the entries a List of the
\* same kind with the same namespace and label filters returns, and leaves
\* every other entry unchanged.
C14_DeleteAllOfRemovesWhatListReturns ==
    [][IsCall("DeleteAllOf") =>
          \A c \in DeleteAllOfCalls :
             (DeleteAllOfCall(c[1], c[2]) /\ storeLast'.err = "nil")
             => LET listed == List(entries, heap, c[1], c[2].ListOptions)
                IN  /\ listed.err = "nil"
                    /\ DOMAIN entries' = DOMAIN entries \ listed.refs
                    /\ \A k \in DOMAIN entries' : entries'[k] = entries[k]
                    /\ heap' = heap]_vars

\* C14 witness: a DeleteAllOf succeeded and the store holds cm2 and the Pod,
\* each under its key.
C14_Witness ==
    /\ storeLast.op = "DeleteAllOf"
    /\ storeLast.err = "nil"
    /\ heap = InitHeap
    /\ DOMAIN entries =
          {ObjectRefFromObject(InitHeap, p) : p \in {"cm2", "pod"}}
    /\ entries[ObjectRefFromObject(InitHeap, "cm2")] = "cm2"
    /\ entries[ObjectRefFromObject(InitHeap, "pod")] = "pod"

----------------------------------------------------------------------------
(* switches: the calls *)

\* The arguments of New: the package's tests' three runners, two items
\* enabled by default, an item whose name holds a comma, and no item.
NewArgs ==
    {<< <<"a">>, <<"-", "b">>, <<"c">> >>,
     << <<"a">>, <<"b">> >>,
     << <<"a", ",", "b">>, <<"-", "a">> >>,
     <<>>}

\* The characters of the spec strings passed to Set.
SpecChars == {"a", "b", Comma, disablePrefix, "*"}

\* The spec strings of up to n characters.
SpecStrings(n) == UNION {[1..k -> SpecChars] : k \in 0..n}

\* s := New(args...)
InitSwitches ==
    /\ \E args \in NewArgs :
          /\ defaults = Make(args).defaults
          /\ settings = Make(args).settings
    /\ switchLast = NoSwitchCall
    /\ CondIdle
    /\ StoreIdle
    /\ IndexerIdle
    /\ ClientIdle

\* s.Set(val)
SetCall(val) ==
    LET r == Set(defaults, settings, val)
    IN  /\ settings' = r.settings
        /\ switchLast' = SwitchCalled("Set", defaults, val, r.err)
        /\ UNCHANGED defaults
        /\ UNCHANGED outsideSwitches

\* s.Set(s.String())
SetStringCall ==
    LET r == Set(defaults, settings, String(defaults, settings))
    IN  /\ settings' = r.settings
        /\ switchLast' = SwitchCalled("SetString", defaults,
                                       String(defaults, settings), r.err)
        /\ UNCHANGED defaults
        /\ UNCHANGED outsideSwitches

NextSwitches ==
    \/ \E val \in SpecStrings(MaxSpecLen) : SetCall(val)
    \/ SetStringCall

SpecSwitches == InitSwitches /\ [][NextSwitches]_vars

----------------------------------------------------------------------------
(* clientutils: the SharedFieldIndexer calls *)

\* idx := NewSharedFieldIndexer(fieldIndexer, scheme)
InitIndexer ==
    IndexerIdle /\ CondIdle /\ StoreIdle /\ SwitchesIdle /\ ClientIdle

\* idx.Register(obj, field, extractValue)
RegisterCall(obj, field, extractValue) ==
    LET r == Register(registry, obj, field, extractValue)
    IN  /\ registry' = r.registry
        /\ indexLast' = [op |-> "Register", err |-> r.err, invoked |-> FALSE]
        /\ UNCHANGED succeeded
        /\ UNCHANGED outsideIndexer

\* idx.IndexField(ctx, obj, field), the underlying indexer returning
\* underlying if it is called.
IndexFieldCall(obj, field, underlying) ==
    LET r == IndexField(registry, obj, field, underlying)
        m == mapFor(obj)
        k == EntryKey(m.flavour, m.gvk, field)
        counted == r.invoked /\ underlying = "nil"
    IN  /\ counted => succeeded[k] < MaxSucceeded
        /\ registry' = r.registry
        /\ succeeded' = IF counted
                        THEN [succeeded EXCEPT ![k] = @ + 1]
                        ELSE succeeded
        /\ indexLast' = [op |-> "IndexField", err |-> r.err,
                         invoked |-> r.invoked]
        /\ UNCHANGED outsideIndexer

\* What the underlying client.FieldIndexer may return.
UnderlyingResults == {"nil", "index error"}

NextIndexer ==
    \/ \E obj \in IndexObjects, field \in IndexFields, f \in ExtractFuncs :
          RegisterCall(obj, field, f)
    \/ \E obj \in IndexObjects, field \in IndexFields,
          underlying \in UnderlyingResults :
          IndexFieldCall(obj, field, underlying)

SpecIndexer == InitIndexer /\ [][NextIndexer]_vars

----------------------------------------------------------------------------
(* switches: properties *)

\* The tokens of the spec of the last successful Set call.
LastTokens == csvRead(switchLast.val)

\* The last successful call was a Set with a non-empty spec.
SetSucceeded ==
    switchLast.op # "none" /\ switchLast.err = "nil" /\ switchLast.val # <<>>

\* The places of the tokens, other than "*", that mention the name.
Mentions(tokens, name) ==
    {i \in 1..Len(tokens) :
        /\ tokens[i] # All
        /\ tokens[i] = name \/ tokens[i] = <<"-">> \o name}

\* The value the last token mentioning the name gives it: a bare name
\* enables, a name behind "-" disables.
LastMentionEnables(tokens, name) ==
    LET last == CHOOSE i \in Mentions(tokens, name) :
                   \A j \in Mentions(tokens, name) : j <= i
    IN  tokens[last] = name

\* The names the tokens mention.
Mentioned(tokens) ==
    {IF tokens[i][1] = "-" THEN Tail(tokens[i]) ELSE tokens[i] :
        i \in {j \in 1..Len(tokens) : tokens[j] # All /\ tokens[j] # <<>>}}

\* C15 (as claimed): after a successful Set(S), a Set(String()) succeeds and
\* leaves Values() as it is.
C15_StringRoundTrip ==
    [][(/\ switchLast.op = "Set"
        /\ switchLast.err = "nil"
        /\ SetStringCall)
        => /\ switchLast'.err = "nil"
           /\ Values(defaults, settings') = Values(defaults, settings)]_vars

\* C16: after a successful Set whose spec holds the token "*", every name of
\* the defaults that no other token mentions has its default value, and
\* every mentioned name has the value its last token gives it, wherever "*"
\* stands and whatever the settings were.
C16_StarStartsFromDefaults ==
    (SetSucceeded /\ \E i \in 1..Len(LastTokens) : LastTokens[i] = All)
    => \A name \in DOMAIN defaults :
          Enabled(settings, name) =
             IF Mentions(LastTokens, name) = {}
             THEN defaults[name]
             ELSE LastMentionEnables(LastTokens, name)

\* C16 witness: defaults {a: true, b: false, c: true} and Set("*,-a") gave
\* {a: false, b: false, c: true}.
C16_Witness ==
    /\ switchLast.op = "Set"
    /\ switchLast.err = "nil"
    /\ switchLast.val = <<"*", ",", "-", "a">>
    /\ defaults = (<<"a">> :> TRUE) @@ (<<"b">> :> FALSE) @@ (<<"c">> :> TRUE)
    /\ Values(defaults, settings) =
          (<<"a">> :> FALSE) @@ (<<"b">> :> FALSE) @@ (<<"c">> :> TRUE)

\* C17 (as claimed): Set("") returns no error and leaves the enabled
\* mapping as it was.
C17_EmptySpecIsNoOp ==
    [][SetCall(<<>>)
        => /\ switchLast'.err = "nil"
           /\ Values(defaults, settings') = Values(defaults, settings)]_vars

\* C18 (as claimed): a Set whose spec has a token naming an item that is not
\* in the defaults returns an error, and a Set that returns an error leaves
\* the enabled mapping as it was.
C18_UnknownNameAllOrNothing ==
    [][switchLast'.op = "Set"
        => /\ switchLast'.err = "nil"
                 => Mentioned(csvRead(switchLast'.val)) \subseteq DOMAIN defaults
           /\ switchLast'.err # "nil"
                 => Values(defaults, settings') = Values(defaults, settings)]_vars

\* C19: after a successful Set with a non-empty spec without the token "*",
\* a name is enabled if and only if the spec mentions it and the last token
\* mentioning it is bare; every name the spec does not mention is disabled,
\* whatever its default and the settings before.
C19_WithoutStarOnlyMentionedNames ==
    (SetSucceeded /\ \A i \in 1..Len(LastTokens) : LastTokens[i] # All)
    => \A name \in DOMAIN defaults \cup Mentioned(LastTokens) :
          Enabled(settings, name) <=>
             /\ Mentions(LastTokens, name) # {}
             /\ LastMentionEnables(LastTokens, name)

\* C19 witness: defaults {a: true, b: false, c: true} and Set("-a,a") gave
\* {a: true, b: false, c: false}.
C19_Witness ==
    /\ switchLast.op = "Set"
    /\ switchLast.err = "nil"
    /\ switchLast.val = <<"-", "a", ",", "a">>
    /\ defaults = (<<"a">> :> TRUE) @@ (<<"b">> :> FALSE) @@ (<<"c">> :> TRUE)
    /\ Values(defaults, settings) =
          (<<"a">> :> TRUE) @@ (<<"b">> :> FALSE) @@ (<<"c">> :> FALSE)

----------------------------------------------------------------------------
(* clientutils: SharedFieldIndexer properties *)

\* The registration an IndexField call for the object and field looks up.
RegistrationOf(obj, field) ==
    EntryKey(mapFor(obj).flavour, mapFor(obj).gvk, field)

\* C20: once an IndexField call for a registration has succeeded, every
\* later IndexField call for it returns nil without calling the underlying
\* field indexer, so the underlying indexer succeeds at most once for each
\* registration.
C20_IndexFieldAtMostOnce ==
    [][/\ \A obj \in IndexObjects, field \in IndexFields :
             (/\ indexLast'.op = "IndexField"
              /\ mapFor(obj).err = "nil"
              /\ succeeded[RegistrationOf(obj, field)] >= 1
              /\ \E underlying \in UnderlyingResults :
                    IndexFieldCall(obj, field, underlying))
             => /\ indexLast'.err = "nil"
                /\ ~indexLast'.invoked
                /\ succeeded' = succeeded
       /\ \A k \in EntryKeys : succeeded'[k] <= 1]_vars

\* C20 witness: an IndexField call came back with nil without calling the
\* underlying indexer, which had succeeded once for a registration.
C20_Witness ==
    /\ indexLast.op = "IndexField"
    /\ indexLast.err = "nil"
    /\ ~indexLast.invoked
    /\ \E k \in DOMAIN registry : registry[k].initialized /\ succeeded[k] = 1

\* C21: a Register for a registration that exists returns an error and
\* leaves every registration, its extractor and its initialized flag
\* included, as it was.
C21_RegisterTwiceKeepsTheFirst ==
    [][\A obj \in IndexObjects, field \in IndexFields :
          (/\ indexLast'.op = "Register"
           /\ mapFor(obj).err = "nil"
           /\ RegistrationOf(obj, field) \in DOMAIN registry
           /\ \E f \in ExtractFuncs : RegisterCall(obj, field, f))
          => /\ indexLast'.err = "already registered"
             /\ registry' = registry]_vars

\* C21 witness: a Register was refused while every registration existed,
\* was initialized and held the extractor f.
C21_Witness ==
    /\ indexLast.op = "Register"
    /\ indexLast.err = "already registered"
    /\ DOMAIN registry = EntryKeys
    /\ \A k \in EntryKeys :
          registry[k].initialized /\ registry[k].extractValue = "f"

\* C28: an IndexField call for an uninitialized registration calls the
\* underlying indexer; if that returns an error, IndexField returns the
\* error and the registration stays uninitialized; a registration is
\* initialized only after the underlying indexer succeeded for it.
C28_FailedIndexFieldStaysUninitialised ==
    [][/\ \A obj \in IndexObjects, field \in IndexFields,
             underlying \in UnderlyingResults :
             (/\ indexLast'.op = "IndexField"
              /\ mapFor(obj).err = "nil"
              /\ RegistrationOf(obj, field) \in DOMAIN registry
              /\ ~registry[RegistrationOf(obj, field)].initialized
              /\ IndexFieldCall(obj, field, underlying))
             => /\ indexLast'.invoked
                /\ indexLast'.err = underlying
                /\ underlying # "nil" => registry' = registry
       /\ \A k \in DOMAIN registry' :
             registry'[k].initialized => succeeded'[k] >= 1]_vars

\* C28 witness: the underlying indexer was called and failed, and IndexField
\* returned its error with a registration still uninitialized.
C28_Witness ==
    /\ indexLast.op = "IndexField"
    /\ indexLast.err = "index error"
    /\ indexLast.invoked
    /\ \E k \in DOMAIN registry : ~registry[k].initialized /\ succeeded[k] = 0

\* C30 (as claimed): after every Set call the names the settings record are
\* names of the defaults, the defaults are the ones of the construction, and
\* Active() is a subset of All().
C30_SettingsNamesAreDefaultNames ==
    [][switchLast'.op \in {"Set", "SetString"}
        => /\ DOMAIN settings' \subseteq AllNames(defaults')
           /\ defaults' = defaults
           /\ Active(settings') \subseteq AllNames(defaults')]_vars

----------------------------------------------------------------------------
(* conditionutils: UpdateSlice on failure *)

\* C26 (as claimed): an UpdateSlice call that returns an error leaves the
\* condition slice as it was: nothing appended, no field of an element
\* changed.
C26_UpdateSliceAtomicOnFailure ==
    [][(/\ condCalls' = condCalls + 1
        /\ condLast'.op = "UpdateSlice"
        /\ condLast'.err # "nil")
        => conds' = conds]_vars

----------------------------------------------------------------------------
(* memorystore: objects written to after they were stored *)

\* What a List of kind gk without options returns.
Listed(e, h, gk) == {h[e[k]] : k \in List(e, h, gk, NoOptions).refs}

\* C29 (as claimed): a write of the caller to an object it passed to Create
\* or Update changes nothing of what Get and List return, and every entry's
\* key is the key derived from the object stored under it.
C29_StoreChangesOnlyThroughItsVerbs ==
    [][/\ mutations' = mutations + 1
            => /\ \A gk \in GroupKinds, key \in ObjectKeys :
                     Get(entries', heap', gk, key, NoOptions)
                        = Get(entries, heap, gk, key, NoOptions)
               /\ \A gk \in GroupKinds :
                     Listed(entries', heap', gk) = Listed(entries, heap, gk)
       /\ \A k \in DOMAIN entries' :
             ObjectRefFromObject(heap', entries'[k]) = k]_vars

----------------------------------------------------------------------------
(* clientutils: the helper calls *)

\* The objects handed to the helpers, and the lists of distinct objects.
ObjectIds == {"o1", "o2", "o3"}
IdLists ==
    {l \in UNION {[1..k -> ObjectIds] : k \in 0..Cardinality(ObjectIds)} :
        \A i, j \in 1..Len(l) : l[i] = l[j] => i = j}

\* What a call on the client returns.
ClientResults == {"nil", "client error"}

\* The verbs of the four ...Multiple helpers.
MultipleVerbs == {"Create", "Get", "Patch", "Delete"}

\* The requests of a GetRequestSet, and the orders its two maps may yield.
TypedRequests == {"t1", "t2"}
UnstructuredRequests == {"u1", "u2"}
Orders(items) ==
    {l \in UNION {[1..k -> items] : k \in 0..Cardinality(items)} :
        \A i, j \in 1..Len(l) : l[i] = l[j] => i = j}

\* The objects given to CreateOrUseAndPatch, as in the package's tests:
\* each matches or not (or matchFunc fails on it) and was created at one of
\* two times.
ObjectLists ==
    {[i \in 1..Len(l) |-> ClientObject(l[i], m[i], t[i], "old")] :
        l \in IdLists,
        m \in [1..Cardinality(ObjectIds) -> {"yes", "no", "error"}],
        t \in [1..Cardinality(ObjectIds) -> {1, 2}]}

\* The mutateFunc given: none, one writing the data the objects have, one
\* writing other data, one that fails.
MutateFuncs == {"nil", "old", "new", "error"}

Finalizers == {"f1", "f2"}

InitClient ==
    ClientIdle /\ CondIdle /\ StoreIdle /\ SwitchesIdle /\ IndexerIdle

\* CreateMultiple(ctx, c, objs), GetMultiple(ctx, c, reqs),
\* PatchMultiple(ctx, c, reqs), DeleteMultiple(ctx, c, objs)
MultipleCall(verb, objs, results) ==
    LET r == Multiple(verb, objs, results)
    IN  /\ clientLast = NoClientCall
        /\ clientLast' = [op |-> "Multiple", verb |-> verb, objs |-> objs,
                          results |-> results, calls |-> r.calls,
                          err |-> r.err, wraps |-> r.wraps,
                          failed |-> r.failed]
        /\ UNCHANGED finalizers
        /\ UNCHANGED outsideClient

\* s.Iterate(f) on a set whose maps yield the requests in the given orders
IterateCall(typedOrder, unstructuredOrder, f) ==
    /\ clientLast = NoClientCall
    /\ clientLast' = [op |-> "Iterate", typedOrder |-> typedOrder,
                      unstructuredOrder |-> unstructuredOrder, f |-> f,
                      visited |-> Iterate(typedOrder, unstructuredOrder, f)]
    /\ UNCHANGED finalizers
    /\ UNCHANGED outsideClient

\* CreateOrUseAndPatch(ctx, c, objects, obj, matchFunc, IsOlderThan(obj),
\* mutateFunc)
CreateOrUseAndPatchCall(objects, mutate, writeResult) ==
    LET r == CreateOrUseAndPatch(objects, NewObject, mutate, writeResult)
    IN  /\ clientLast = NoClientCall
        /\ clientLast' = [op |-> "CreateOrUseAndPatch", objects |-> objects,
                          mutate |-> mutate, result |-> r.result,
                          other |-> r.other, err |-> r.err, obj |-> r.obj,
                          calls |-> r.calls]
        /\ UNCHANGED finalizers
        /\ UNCHANGED outsideClient

\* The helper calls made so far are calls of the finalizer helpers.
FinalizerCallsOnly ==
    clientLast.op \in {"none", "PatchAddFinalizer", "PatchRemoveFinalizer",
                       "PatchEnsureFinalizer", "PatchEnsureNoFinalizer"}

\* PatchAddFinalizer(ctx, c, obj, finalizer): the Patch is issued whether
\* the finalizer was present or not.
PatchAddFinalizerCall(finalizer, patchResult) ==
    LET r == PatchAddFinalizer(finalizers, finalizer, patchResult)
    IN  /\ FinalizerCallsOnly
        /\ finalizers' = r.finalizers
        /\ clientLast' = [op |-> "PatchAddFinalizer",
                          finalizer |-> finalizer, calls |-> r.calls,
                          err |-> r.err]
        /\ UNCHANGED outsideClient

\* PatchRemoveFinalizer(ctx, c, obj, finalizer): the Patch is issued whether
\* the finalizer was present or not.
PatchRemoveFinalizerCall(finalizer, patchResult) ==
    LET r == PatchRemoveFinalizer(finalizers, finalizer, patchResult)
    IN  /\ FinalizerCallsOnly
        /\ finalizers' = r.finalizers
        /\ clientLast' = [op |-> "PatchRemoveFinalizer",
                          finalizer |-> finalizer, calls |-> r.calls,
                          err |-> r.err]
        /\ UNCHANGED outsideClient

\* PatchEnsureFinalizer(ctx, c, obj, finalizer)
PatchEnsureFinalizerCall(finalizer, patchResult) ==
    LET r == PatchEnsureFinalizer(finalizers, finalizer, patchResult)
    IN  /\ FinalizerCallsOnly
        /\ finalizers' = r.finalizers
        /\ clientLast' = [op |-> "PatchEnsureFinalizer",
                          finalizer |-> finalizer, calls |-> r.calls,
                          err |-> r.err, modified |-> r.modified]
        /\ UNCHANGED outsideClient

\* PatchEnsureNoFinalizer(ctx, c, obj, finalizer)
PatchEnsureNoFinalizerCall(finalizer, patchResult) ==
    LET r == PatchEnsureNoFinalizer(finalizers, finalizer, patchResult)
    IN  /\ FinalizerCallsOnly
        /\ finalizers' = r.finalizers
        /\ clientLast' = [op |-> "PatchEnsureNoFinalizer",
                          finalizer |-> finalizer, calls |-> r.calls,
                          err |-> r.err, modified |-> r.modified]
        /\ UNCHANGED outsideClient

NextClient ==
    \/ \E verb \in MultipleVerbs, objs \in IdLists,
          results \in [1..Cardinality(ObjectIds) -> ClientResults] :
          MultipleCall(verb, objs, results)
    \/ \E typedOrder \in Orders(TypedRequests),
          unstructuredOrder \in Orders(UnstructuredRequests),
          f \in [TypedRequests \cup UnstructuredRequests -> BOOLEAN] :
          IterateCall(typedOrder, unstructuredOrder, f)
    \/ \E objects \in ObjectLists, mutate \in MutateFuncs,
          writeResult \in ClientResults :
          CreateOrUseAndPatchCall(objects, mutate, writeResult)
    \/ \E finalizer \in Finalizers, patchResult \in ClientResults :
          PatchAddFinalizerCall(finalizer, patchResult)
    \/ \E finalizer \in Finalizers, patchResult \in ClientResults :
          PatchRemoveFinalizerCall(finalizer, patchResult)
    \/ \E finalizer \in Finalizers, patchResult \in ClientResults :
          PatchEnsureFinalizerCall(finalizer, patchResult)
    \/ \E finalizer \in Finalizers, patchResult \in ClientResults :
          PatchEnsureNoFinalizerCall(finalizer, patchResult)

SpecClient == InitClient /\ [][NextClient]_vars

----------------------------------------------------------------------------
(* clientutils: properties of the helpers *)

\* The objects of the last CreateOrUseAndPatch call that satisfy matchFunc.
MatchingObjects ==
    {i \in 1..Len(clientLast.objects) : clientLast.objects[i].match = "yes"}

\* The last call was a CreateOrUseAndPatch that returned no error.
CreateOrUseSucceeded ==
    clientLast.op = "CreateOrUseAndPatch" /\ clientLast.err = "nil"

\* C22: when objects given to CreateOrUseAndPatch satisfy matchFunc and
\* lessFunc is IsOlderThan(obj), the object copied into obj is a matching
\* object whose creation timestamp is the least among the matching objects,
\* in whatever order the objects are given.
C22_OldestMatchingObjectIsUsed ==
    (CreateOrUseSucceeded /\ MatchingObjects # {})
    => \E i \in MatchingObjects :
          /\ clientLast.obj.id = clientLast.objects[i].id
          /\ \A j \in MatchingObjects :
                clientLast.objects[i].created <= clientLast.objects[j].created

\* C22 witness: of three matching objects the second is the oldest and is
\* the one used, the two others are handed back.
C22_Witness ==
    /\ CreateOrUseSucceeded
    /\ clientLast.objects = <<ClientObject("o1", "yes", 2, "old"),
                              ClientObject("o2", "yes", 1, "old"),
                              ClientObject("o3", "yes", 2, "old")>>
    /\ clientLast.obj.id = "o2"
    /\ Len(clientLast.other) = 2

\* C23: CreateOrUseAndPatch makes at most one write on the client.  A call
\* that returns no error made exactly one Create and returns Created if no
\* object matches, made exactly one Patch and returns Updated if an object
\* matches and mutateFunc changes it, and made no write and returns None if
\* an object matches and mutateFunc leaves it equal; a call that returns an
\* error returns None.
C23_AtMostOneWrite ==
    clientLast.op = "CreateOrUseAndPatch"
    => /\ Len(clientLast.calls) <= 1
       /\ clientLast.err # "nil" => clientLast.result = OperationResultNone
       /\ clientLast.err = "nil" =>
             IF MatchingObjects = {}
             THEN /\ clientLast.calls = <<"Create">>
                  /\ clientLast.result = OperationResultCreated
             ELSE IF clientLast.mutate = "new"
             THEN /\ clientLast.calls = <<"Patch">>
                  /\ clientLast.result = OperationResultUpdated
             ELSE /\ clientLast.calls = <<>>
                  /\ clientLast.result = OperationResultNone

\* C23 witness: an object matched, mutateFunc wrote the data it had already,
\* and the call returned None without a write.
C23_Witness ==
    /\ CreateOrUseSucceeded
    /\ MatchingObjects # {}
    /\ clientLast.mutate = "old"
    /\ clientLast.calls = <<>>
    /\ clientLast.result = OperationResultNone
    /\ clientLast.obj.data = "old"

\* The calls of the last ...Multiple call that the client answered with an
\* error, had they all been made.
FailingCalls ==
    {i \in 1..Len(clientLast.objs) : clientLast.results[i] # "nil"}

\* C24: CreateMultiple, GetMultiple, PatchMultiple and DeleteMultiple call
\* the client once for each element in slice order and stop at the first
\* failing call: the returned error wraps the error of that call and no call
\* is made for a later element.
C24_MultipleStopsAtFirstFailure ==
    clientLast.op = "Multiple"
    => LET n == IF FailingCalls = {}
                THEN Len(clientLast.objs)
                ELSE CHOOSE i \in FailingCalls :
                        \A j \in FailingCalls : i <= j
       IN  /\ clientLast.calls =
                 [i \in 1..n |-> <<clientLast.verb, clientLast.objs[i]>>]
           /\ FailingCalls = {} => clientLast.err = "nil"
           /\ FailingCalls # {} =>
                 /\ clientLast.err = "error"
                 /\ clientLast.wraps = clientLast.results[n]
                 /\ clientLast.failed = clientLast.objs[n]

\* C24 witness: DeleteMultiple of three objects whose second Delete failed:
\* two calls were made, none for the third object.
C24_Witness ==
    /\ clientLast.op = "Multiple"
    /\ clientLast.verb = "Delete"
    /\ clientLast.objs = <<"o1", "o2", "o3">>
    /\ clientLast.results[1] = "nil"
    /\ clientLast.results[2] = "client error"
    /\ clientLast.calls = << <<"Delete", "o1">>, <<"Delete", "o2">> >>
    /\ clientLast.err = "error"
    /\ clientLast.failed = "o2"

\* The requests in the order the last Iterate call met them.
IterationOrder == clientLast.typedOrder \o clientLast.unstructuredOrder

\* The order up to and including the first request for which the callback
\* returns the value stop, the whole order if there is none.
UpToFirst(order, f, stop) ==
    LET hits == {i \in 1..Len(order) : f[order[i]] = stop}
    IN  IF hits = {} THEN order
        ELSE SubSeq(order, 1, CHOOSE i \in hits : \A j \in hits : i <= j)

\* C25 (as claimed, and as the doc comment of Iterate says): Iterate ends as
\* soon as the callback returns true and goes on while it returns false.
C25_IterateStopsOnTrue ==
    clientLast.op = "Iterate"
    => clientLast.visited = UpToFirst(IterationOrder, clientLast.f, TRUE)

\* C27 (as claimed): a PatchEnsureFinalizer or PatchEnsureNoFinalizer call
\* that returns an error leaves the finalizers of the object as they were.
C27_FailedPatchKeepsFinalizers ==
    [][(/\ clientLast'.op \in {"PatchEnsureFinalizer",
                               "PatchEnsureNoFinalizer"}
        /\ clientLast'.err # "nil")
        => finalizers' = finalizers]_vars

====
